---------------------------- MODULE Spec2Model ----------------------------
(***************************************************************************)
(* A model of webui.py: the request wrappers (wrap_gradio_gpu_call,        *)
(* wrap_gradio_call), do_generate and the generation loop process_images   *)
(* with its loopback and SD-upscale drivers, the grid tiler (split_grid,   *)
(* combine_grid), get_crop_region and the prompt-matrix expansion.         *)
(***************************************************************************)
EXTENDS Integers, Sequences, FiniteSets, TLC

(***************************************************************************)
(* Bounds of the model.                                                    *)
(***************************************************************************)
NumThreads == 2
MaxBatch == 3
MaxSteps == 1
MaxDim == 6
MaxMaskDim == 3
MaxMaskPixels == 2
MaxPad == 2
MaxPromptLen == 3
MaxLog == 1
MaxSamplerSteps == 5
MaxTokens == 4
MaxLength == 5
MaxLatent == 2
NumBlocks == 2
MaxFiles == 2
MaxMtime == 3

Threads == 1..NumThreads

VARIABLES
    queue_lock,     \* threading.Lock(): TRUE when held
    interrupted,    \* state.interrupted
    opts,           \* the Options the request machine reads
    pc,             \* per request handler: where its call stands
    req,            \* per handler: the arguments of the call
    p,              \* per handler: the StableDiffusionProcessing object
    n,              \* per handler: process_images' batch index
    step,           \* per handler: the sampler's step index
    output_images,  \* per handler: process_images' output_images
    i,              \* per handler: loop index of the loopback / SD-upscale driver
    history,        \* per handler: loopback's history, SD-upscale's work_results
    exc,            \* per handler: the exception in flight, "none" if none
    res,            \* per handler: what the wrapper returned last
    called,         \* per handler: txt2img / img2img was entered in this call
    hit,            \* per handler: interrupt() was called while this call was in the body
    completed,      \* per handler: images of the batches / rounds completed in this call
    intOwners,      \* the handlers that were in the body when interrupt() was last called
    runs,           \* per handler: seed, strength, batch size, info of each process_images call
    saved,          \* per handler: what save_image wrote in this call, with its info
    history_log     \* the history file: the entries appended to it

reqVars == <<queue_lock, interrupted, opts, pc, req, p, n, step, output_images, i,
             history, exc, res, called, hit, completed, intOwners, runs, saved,
             history_log>>

VARIABLES
    g_pc,           \* the tiler run: "start", "split", "combined"
    g_image,        \* the image given to split_grid
    g_args,         \* tile_w, tile_h, overlap given to split_grid
    grid,           \* the Grid split_grid returned
    combined_image  \* the image combine_grid returned

gridVars == <<g_pc, g_image, g_args, grid, combined_image>>

VARIABLES
    c_pc,           \* the crop run: "start", "cropped"
    c_mask,         \* the mask array given to get_crop_region
    c_pad,          \* the pad given to get_crop_region
    crop_region     \* the box get_crop_region returned

cropVars == <<c_pc, c_mask, c_pad, crop_region>>

VARIABLES
    m_pc,           \* the expansion run: "start", "expanded", "grid"
    m_p,            \* the request process_images expands: prompt, batch_size, seed
    m_opts,         \* the Options the expansion reads
    m_out,          \* all_prompts, all_seeds and p.n_iter after the expansion
    m_grid          \* the prompt matrix grid: the cells of the images, the annotations

matrixVars == <<m_pc, m_p, m_opts, m_out, m_grid>>

VARIABLES
    s_pc,           \* the sample_img2img run: "start", "loop", "returned"
    s_p,            \* the sampler's name, p.steps and p.denoising_strength (in 1/100)
    s_x             \* t_enc, where the noise was injected, the loop's length and turns done

samplerVars == <<s_pc, s_p, s_x>>

VARIABLES
    e_pc,           \* the encoding run: "start", "loaded", "scan", "built", "embedded"
    e_in,           \* the embeddings directory, the prompt's tokens, opts.enable_emphasis
    ids_lookup,     \* model_hijack.ids_lookup: first token id -> [(ids, name), ...]
    e_i,            \* forward's loop index i
    mult,           \* forward's running multiplier, as the exponent of 1.1
    remade_tokens,  \* forward's remade_tokens
    multipliers,    \* forward's multipliers, each as the exponent of 1.1
    fixes,          \* model_hijack.fixes of the prompt: [(offset, word), ...]
    inputs_embeds,  \* what EmbeddingsWithFixes.forward returns, position by position
    e_exc           \* the exception the run ended with, "none" if none

embedderVars == <<e_pc, e_in, ids_lookup, e_i, mult, remade_tokens, multipliers, fixes,
                  inputs_embeds, e_exc>>

VARIABLES
    l_pc,           \* the inpainting run: "start", "ready", "sampling", "sampled", "returned"
    l_p,            \* inpainting_fill, the sampler, the encoded image and latmask
    l_mask,         \* self.mask, position by position
    l_nmask,        \* self.nmask
    init_latent,    \* self.init_latent
    denoised,       \* what the last denoiser invocation blended with the mask
    samples,        \* the sampler's latent, then what sample() returns
    l_step          \* the sampler's step index

inpaintVars == <<l_pc, l_p, l_mask, l_nmask, init_latent, denoised, samples, l_step>>

VARIABLES
    v_pc,           \* a hooked call: "idle", "hook", "evict", "load", "compute"
    medvram,        \* cmd_opts.medvram
    v_module,       \* the submodule called, then the module send_me_to_gpu looked up
    module_in_gpu,  \* the global module_in_gpu
    on_gpu          \* the tracked modules that are on the accelerator

lowvramVars == <<v_pc, medvram, v_module, module_in_gpu, on_gpu>>

VARIABLES
    d_pc,           \* the embeddings loader: "idle", "listing"
    listdir,        \* os.listdir(dirname): the files of the directory
    d_mt,           \* os.path.getmtime(dirname)
    d_k,            \* the files of the listing processed
    dir_mtime,      \* self.dir_mtime
    word_embeddings,\* self.word_embeddings: name and embedding
    d_ids_lookup    \* self.ids_lookup as the loader builds it

loaderVars == <<d_pc, listdir, d_mt, d_k, dir_mtime, word_embeddings, d_ids_lookup>>

vars == <<reqVars, gridVars, cropVars, matrixVars, samplerVars, embedderVars, inpaintVars, lowvramVars, loaderVars>>

\* what no step of the request machine changes
RequestFrame == UNCHANGED <<gridVars, cropVars, matrixVars, samplerVars, embedderVars, inpaintVars, lowvramVars, loaderVars>>

(***************************************************************************)
(* Helpers.                                                                *)
(***************************************************************************)
\* math.ceil(a / b) for a >= 0, b > 0
Ceil(a, b) == (a + b - 1) \div b

Min(a, b) == IF a <= b THEN a ELSE b
Max(a, b) == IF a >= b THEN a ELSE b

RECURSIVE Pow2(_)
Pow2(k) == IF k = 0 THEN 1 ELSE 2 * Pow2(k - 1)

\* b ** k
RECURSIVE Pow(_, _)
Pow(b, k) == IF k = 0 THEN 1 ELSE b * Pow(b, k - 1)

\* random.randrange(4294967294): a few of the seeds it can draw
RandomSeeds == {0, 1, 1000000}

\* s[a:b] of Python for 0 <= a <= b, 0-based, on a 1-based sequence
Slice(s, a, b) == SubSeq(s, Min(a, Len(s)) + 1, Min(b, Len(s)))

\* round(math.sqrt(k)) for the small k the model reaches
RECURSIVE RoundSqrtFrom(_, _)
RoundSqrtFrom(k, r) == IF (2 * r + 1) * (2 * r + 1) > 4 * k THEN r ELSE RoundSqrtFrom(k, r + 1)
RoundSqrt(k) == RoundSqrtFrom(k, 0)

\* strings are sequences of characters
\* str.strip(chars): the leading and the trailing characters of chars removed
RECURSIVE LStrip(_, _)
LStrip(str, chars) ==
    IF str # <<>> /\ Head(str) \in chars THEN LStrip(Tail(str), chars) ELSE str

RECURSIVE RStrip(_, _)
RStrip(str, chars) ==
    IF str # <<>> /\ str[Len(str)] \in chars THEN RStrip(SubSeq(str, 1, Len(str) - 1), chars)
    ELSE str

Strip(str, chars) == RStrip(LStrip(str, chars), chars)

(***************************************************************************)
(* Images of the tiler: width, height and one 8 bit band, px[<<x, y>>].    *)
(***************************************************************************)
Pixels(w, h) == (0..(w - 1)) \X (0..(h - 1))

\* Image.new(mode, (w, h)): black
NewImage(w, h) == [width |-> w, height |-> h, px |-> [q \in Pixels(w, h) |-> 0]]

\* image.crop((x0, y0, x1, y1)): what lies outside the image is black
Crop(im, x0, y0, x1, y1) ==
    [width |-> x1 - x0, height |-> y1 - y0,
     px |-> [q \in Pixels(x1 - x0, y1 - y0) |->
                IF <<q[1] + x0, q[2] + y0>> \in DOMAIN im.px
                THEN im.px[<<q[1] + x0, q[2] + y0>>] ELSE 0]]

\* dst.paste(src, (x, y))
Paste(dst, src, x, y) ==
    [dst EXCEPT !.px = [q \in DOMAIN dst.px |->
        IF <<q[1] - x, q[2] - y>> \in DOMAIN src.px
        THEN src.px[<<q[1] - x, q[2] - y>>] ELSE dst.px[q]]]

\* the 8 bit blend of a paste through an L mask: (in1 * (255 - m) + in2 * m) / 255,
\* rounded as the imaging library's shift does
Blend(m, in1, in2) ==
    LET tmp == in1 * (255 - m) + in2 * m + 128
    IN  ((tmp \div 256) + tmp) \div 256

\* dst.paste(src, (x, y), mask=mask)
PasteMask(dst, src, x, y, mask) ==
    [dst EXCEPT !.px = [q \in DOMAIN dst.px |->
        IF <<q[1] - x, q[2] - y>> \in DOMAIN src.px
        THEN Blend(mask.px[<<q[1] - x, q[2] - y>>], dst.px[q], src.px[<<q[1] - x, q[2] - y>>])
        ELSE dst.px[q]]]

(***************************************************************************)
(* split_grid and combine_grid.  A Grid's tiles are rows <<y, tile_h,      *)
(* row_images>>, a row's images are <<x, tile_w, tile>>.                   *)
(***************************************************************************)
\* a tile count that rounds down
GridCount_Floor(dim, tile, overlap) == (dim - overlap) \div (tile - overlap)

\* cols = math.ceil((w - overlap) / now), rows likewise
GridCount(dim, tile, overlap) == Ceil(dim - overlap, tile - overlap)

\* an offset that is not pulled back at the image's edge
TileOffset_NoClamp(idx, dim, tile, overlap) == idx * (tile - overlap)

\* x = col * now; if x + tile_w >= w: x = w - tile_w
TileOffset(idx, dim, tile, overlap) ==
    LET x == idx * (tile - overlap)
    IN  IF x + tile >= dim THEN dim - tile ELSE x

split_grid(image, tile_w, tile_h, overlap) ==
    LET w == image.width
        h == image.height
        cols == GridCount(w, tile_w, overlap)
        rows == GridCount(h, tile_h, overlap)
    IN  [tiles |-> [row \in 1..rows |->
                       LET y == TileOffset(row - 1, h, tile_h, overlap)
                       IN  <<y, tile_h,
                             [col \in 1..cols |->
                                 LET x == TileOffset(col - 1, w, tile_w, overlap)
                                 IN  <<x, tile_w, Crop(image, x, y, x + tile_w, y + tile_h)>>]>>],
         tile_w |-> tile_w, tile_h |-> tile_h, image_w |-> w, image_h |-> h,
         overlap |-> overlap]

\* make_mask_image of the ramp along x (mask_w) and along y (mask_h):
\* r * 255 / grid.overlap as uint8
MaskW(gr) ==
    [width |-> gr.overlap, height |-> gr.tile_h,
     px |-> [q \in Pixels(gr.overlap, gr.tile_h) |-> (q[1] * 255) \div gr.overlap]]

MaskH(gr) ==
    [width |-> gr.image_w, height |-> gr.overlap,
     px |-> [q \in Pixels(gr.image_w, gr.overlap) |-> (q[2] * 255) \div gr.overlap]]

\* a tile whose columns after the overlap band are pasted at the tile's own x
PasteTile_AtX(gr, combined_row, entry) ==
    LET x == entry[1]
        w == entry[2]
        tile == entry[3]
        h == gr.tile_h
    IN  IF x = 0 THEN Paste(combined_row, tile, 0, 0)
        ELSE Paste(PasteMask(combined_row, Crop(tile, 0, 0, gr.overlap, h), x, 0, MaskW(gr)),
                   Crop(tile, gr.overlap, 0, w, h), x, 0)

\* one turn of `for x, w, tile in row`: the first tile pasted, the others blended
\* over the overlap band and pasted after it
PasteTile(gr, combined_row, entry) ==
    LET x == entry[1]
        w == entry[2]
        tile == entry[3]
        h == gr.tile_h
    IN  IF x = 0 THEN Paste(combined_row, tile, 0, 0)
        ELSE Paste(PasteMask(combined_row, Crop(tile, 0, 0, gr.overlap, h), x, 0, MaskW(gr)),
                   Crop(tile, gr.overlap, 0, w, h), x + gr.overlap, 0)

RECURSIVE CombineRow(_, _, _, _)
CombineRow(gr, row, k, combined_row) ==
    IF k > Len(row) THEN combined_row
    ELSE CombineRow(gr, row, k + 1, PasteTile(gr, combined_row, row[k]))

\* a row whose part after the overlap band is left out
PasteRow_BandOnly(gr, combined, entry) ==
    LET y == entry[1]
        h == entry[2]
        combined_row == CombineRow(gr, entry[3], 1, NewImage(gr.image_w, h))
    IN  IF y = 0 THEN Paste(combined, combined_row, 0, 0)
        ELSE PasteMask(combined, Crop(combined_row, 0, 0, combined_row.width, gr.overlap),
                       0, y, MaskH(gr))

\* one turn of `for y, h, row in grid.tiles`
PasteRow(gr, combined, entry) ==
    LET y == entry[1]
        h == entry[2]
        combined_row == CombineRow(gr, entry[3], 1, NewImage(gr.image_w, h))
    IN  IF y = 0 THEN Paste(combined, combined_row, 0, 0)
        ELSE Paste(PasteMask(combined, Crop(combined_row, 0, 0, combined_row.width, gr.overlap),
                             0, y, MaskH(gr)),
                   Crop(combined_row, 0, gr.overlap, combined_row.width, h), 0, y + gr.overlap)

RECURSIVE CombineRows(_, _, _)
CombineRows(gr, k, combined) ==
    IF k > Len(gr.tiles) THEN combined
    ELSE CombineRows(gr, k + 1, PasteRow(gr, combined, gr.tiles[k]))

combine_grid(gr) == CombineRows(gr, 1, NewImage(gr.image_w, gr.image_h))

(***************************************************************************)
(* The tiler run: an image and arguments within split_grid's contract      *)
(* (tiles no larger than the image, overlap below the tile size), split,   *)
(* then combined with the tiles as split_grid left them.                   *)
(***************************************************************************)
\* two images whose pixels all differ: counting up from 1, counting down from 255
RampImage(w, h) == [width |-> w, height |-> h, px |-> [q \in Pixels(w, h) |-> 1 + q[1] + w * q[2]]]

HighImage(w, h) == [width |-> w, height |-> h,
                    px |-> [q \in Pixels(w, h) |-> 255 - (q[1] + w * q[2])]]

TilerImages == UNION {{RampImage(w, h), HighImage(w, h)} : w \in 1..MaxDim, h \in 1..MaxDim}

NoGrid == [tiles |-> <<>>, tile_w |-> 0, tile_h |-> 0, image_w |-> 0, image_h |-> 0, overlap |-> 0]

TilerIdle ==
    /\ g_pc = "idle"
    /\ g_image = NewImage(0, 0)
    /\ g_args = [tile_w |-> 0, tile_h |-> 0, overlap |-> 0]
    /\ grid = NoGrid
    /\ combined_image = NewImage(0, 0)

InitTiler ==
    /\ g_pc = "start"
    /\ g_image \in TilerImages
    /\ g_args \in {a \in [tile_w : 1..MaxDim, tile_h : 1..MaxDim, overlap : 0..(MaxDim - 1)] :
                      /\ a.tile_w <= g_image.width
                      /\ a.tile_h <= g_image.height
                      /\ a.overlap < a.tile_w /\ a.overlap < a.tile_h}
    /\ grid = NoGrid
    /\ combined_image = NewImage(0, 0)

TilerFrame == UNCHANGED <<reqVars, cropVars, matrixVars, samplerVars, embedderVars, inpaintVars, lowvramVars, loaderVars>>

SplitGrid ==
    /\ TilerFrame
    /\ g_pc = "start"
    /\ grid' = split_grid(g_image, g_args.tile_w, g_args.tile_h, g_args.overlap)
    /\ g_pc' = "split"
    /\ UNCHANGED <<g_image, g_args, combined_image>>

CombineGrid ==
    /\ TilerFrame
    /\ g_pc = "split"
    /\ combined_image' = combine_grid(grid)
    /\ g_pc' = "combined"
    /\ UNCHANGED <<g_image, g_args, grid>>

(***************************************************************************)
(* samplers and samplers_for_img2img.                                      *)
(***************************************************************************)
samplers == <<"Euler", "Euler ancestral", "LMS", "Heun", "DPM2", "DPM2 a", "DDIM", "PLMS">>

samplers_for_img2img == SelectSeq(samplers, LAMBDA x : x # "PLMS")

\* the samplers built by KDiffusionSampler, whose loop runs over extended_trange
IsKDiffusion(name) == name \notin {"DDIM", "PLMS"}

\* t_enc = int(min(p.denoising_strength, 0.999) * p.steps), the strength counted in
\* units of 1 / (100 * unit); within the bounds the product of the doubles has the
\* integer part of the exact product
t_enc(strength, unit, steps) == (Min(strength * 10, 999 * unit) * steps) \div (1000 * unit)

\* model_wrap.get_sigmas(steps): steps noise levels from the highest down, then 0;
\* a level is named by the number of steps left at it
get_sigmas(steps) == [k \in 1..(steps + 1) |-> steps + 1 - k]

\* a schedule that starts one level lower, at sigmas[p.steps - t_enc:]
sigma_sched_FromTEnc(strength, unit, steps) ==
    Slice(get_sigmas(steps), steps - t_enc(strength, unit, steps), steps + 1)

\* sigma_sched = sigmas[p.steps - t_enc - 1:]; its first sigma scales the noise
sigma_sched(strength, unit, steps) ==
    Slice(get_sigmas(steps), steps - t_enc(strength, unit, steps) - 1, steps + 1)

\* the turns of the sampler's loop: k-diffusion's samplers loop over
\* trange(len(sigmas) - 1), DDIM's decode over the first t_start timesteps, and
\* sample() of either class over p.steps
LoopTurns(kind, name, strength, unit, steps) ==
    IF kind = "txt2img" THEN steps
    ELSE IF IsKDiffusion(name) THEN Len(sigma_sched(strength, unit, steps)) - 1
    ELSE t_enc(strength, unit, steps)


(***************************************************************************)
(* Exceptions.  A raise inside the body of a handler unwinds to the end of *)
(* the `with queue_lock` block.                                            *)
(***************************************************************************)
\* the classes `except Exception` of wrap_gradio_call catches
ExceptionSubclasses == {"Exception", "IndexError", "ZeroDivisionError", "RuntimeError",
                        "TypeError", "AttributeError", "AssertionError"}

\* an except clause that names one class only
Catches_RuntimeErrorOnly(e) == e = "RuntimeError"

Catches(e) == e \in ExceptionSubclasses

(***************************************************************************)
(* Images are records: kind "sample" (decoded from a batch: src is the     *)
(* init image's tile index or 0, rnd the driver's round, idx the index in  *)
(* the run, seed the seed of its noise), "grid", "blank", "input", "tile",  *)
(* "combined" (tiles: the tiles it was put together from), "restored".     *)
(***************************************************************************)
Img(kind, src, rnd, idx) ==
    [kind |-> kind, src |-> src, rnd |-> rnd, idx |-> idx, tiles |-> <<>>, seed |-> 0]

NoImage == Img("none", 0, 0, 0)

(***************************************************************************)
(* The arguments of a call.                                                *)
(***************************************************************************)
\* widths and heights asked for: 128 is a multiple of 64, 100 is not
Dims == {100, 128}

\* the seed typed into the seed box when none of the variants below is drawn
ExplicitSeed == 42

\* the slider's default denoising strength, in hundredths
DefaultDenoise == 75

GenRequest(modes, loopbacks, upscales, images, widths) ==
    {r \in [handler : {"do_generate"}, mode : modes,
            batch_count : 0..MaxBatch, batch_size : 0..MaxBatch,
            image_width : Dims, image_height : Dims,
            loopback : loopbacks, upscale : upscales,
            has_image : images, src_w : widths, src_h : {64},
            sampler_index : {0, 6}, seed : {ExplicitSeed}, denoise : {DefaultDenoise},
            prompt : {<<"a">>}] :
        r.image_width = 128 \/ r.image_height = 128}

\* the requests of R the validation passes, with the first sampler and one image per batch
Plain(R) ==
    {r \in R : /\ r.batch_count >= 1 /\ r.batch_size = 1 /\ r.sampler_index = 0
               /\ r.image_width = 128 /\ r.image_height = 128}

\* the requests of R with the seeds and the strengths (in hundredths) given
Variants(R, seeds, strengths) ==
    {[r EXCEPT !.seed = s, !.denoise = d] : r \in R, s \in seeds, d \in strengths}

\* -1 asks for a random seed; a prompt may come with blanks around it
Txt2ImgRequests ==
    GenRequest({"Text-to-Image"}, {FALSE}, {FALSE}, {FALSE}, {64})
    \cup Variants(Plain(GenRequest({"Text-to-Image"}, {FALSE}, {FALSE}, {FALSE}, {64})),
                  {-1}, {DefaultDenoise})
    \cup {[r EXCEPT !.prompt = <<" ", "a">>] :
             r \in Plain(GenRequest({"Text-to-Image"}, {FALSE}, {FALSE}, {FALSE}, {64}))}

\* loopback runs with a random seed, with seeds taken as given, and with strengths
\* below, at and above the floor of 0.1
LoopbackRequests ==
    Variants(Plain(GenRequest({"Image-to-Image"}, {TRUE}, {FALSE}, {TRUE}, {64})),
             {-1, -2}, {DefaultDenoise})
    \cup Variants(Plain(GenRequest({"Image-to-Image"}, {TRUE}, {FALSE}, {TRUE}, {64})),
                  {ExplicitSeed}, {5, 10})

\* classic, loopback and SD upscale; the upscaled image is one tile, two or three
Img2ImgRequests ==
    GenRequest({"Image-to-Image"}, {FALSE}, {FALSE}, BOOLEAN, {64})
    \cup GenRequest({"Image-to-Image"}, {TRUE}, {FALSE}, BOOLEAN, {64})
    \cup GenRequest({"Image-to-Image"}, BOOLEAN, {TRUE}, {TRUE}, {64, 96, 128})
    \cup GenRequest({"Image-to-Image"}, {FALSE}, {TRUE}, {FALSE}, {64})
    \cup LoopbackRequests

InpaintingRequests == GenRequest({"Inpainting"}, {FALSE}, {FALSE}, BOOLEAN, {64})

OtherModeRequests ==
    {r \in GenRequest({"Other"}, {FALSE}, {FALSE}, {FALSE}, {64}) :
        /\ r.batch_count = 1 /\ r.batch_size = 1 /\ r.sampler_index = 0
        /\ r.image_width = 128 /\ r.image_height = 128}

PostprocessingRequests ==
    [handler : {"run_postprocessing"}, mode : {"Post-Processing"},
     batch_count : {1}, batch_size : {1}, image_width : {128}, image_height : {128},
     loopback : {FALSE}, upscale : {FALSE}, has_image : BOOLEAN, src_w : {64}, src_h : {64},
     sampler_index : {0}, seed : {ExplicitSeed}, denoise : {DefaultDenoise},
     prompt : {<<"a">>}]

\* the last sampler of the dropdown, PLMS, for text-to-image and for image-to-image
LastSamplerRequests ==
    {[r EXCEPT !.sampler_index = Len(samplers) - 1] :
        r \in Plain(GenRequest({"Text-to-Image"}, {FALSE}, {FALSE}, {FALSE}, {64}))
               \cup Plain(GenRequest({"Image-to-Image"}, {FALSE}, {FALSE}, {TRUE}, {64}))}

AllRequests ==
    Txt2ImgRequests \cup Img2ImgRequests \cup InpaintingRequests \cup LastSamplerRequests
    \cup OtherModeRequests \cup PostprocessingRequests

\* the calls the concurrent specification submits: text-to-image and post-processing
QueueRequests ==
    {r \in Txt2ImgRequests : r.image_height = 128 /\ r.batch_size = 1 /\ r.batch_count = 1
                             /\ r.sampler_index = 0 /\ r.seed = ExplicitSeed
                             /\ r.prompt = <<"a">>}
    \cup PostprocessingRequests

NoRequest == CHOOSE r \in PostprocessingRequests : ~r.has_image

NoP == [kind |-> "none", n_iter |-> 0, batch_size |-> 0, do_not_save_grid |-> FALSE,
        do_not_save_samples |-> FALSE, init_images |-> <<>>, sampler |-> "none",
        steps |-> 0, ret |-> "exit", work |-> <<>>, batch_count |-> 0, all_prompts |-> <<>>,
        all_seeds |-> <<>>, seed |-> 0, denoising_strength |-> 0, width |-> 0, height |-> 0, prompt |-> <<>>,
        sampler_index |-> 0]

\* OutputInfo(prompt, params, comments): params are the generation parameters
\* the text is made of (Steps, Sampler, Seed)
OutputInfo(prompt, params) ==
    [prompt |-> Strip(prompt, {" "}), params |-> params, comments |-> <<>>]

NoInfo == OutputInfo(<<>>, <<>>)

\* Processed.js() of no result
NoJs == [seed |-> 0, width |-> 0, height |-> 0, steps |-> 0]

NoRes == [kind |-> "none", images |-> <<>>, js |-> NoJs, html |-> <<>>]

\* opts.outdir is no option of Options.data_labels: reading it raises unless the
\* loaded config.json has the key
Undefined == "AttributeError"

DefaultOpts == [grid_only_if_multiple |-> TRUE, return_grid |-> TRUE, n_rows |-> -1,
                sd_upscale_overlap |-> 64, samples_save |-> TRUE, grid_save |-> TRUE,
                enable_history |-> TRUE, outdir |-> Undefined]

\* the options the request machine is run with
OptionSets ==
    {[DefaultOpts EXCEPT !.grid_only_if_multiple = a, !.return_grid = b,
                         !.enable_history = FALSE] : a, b \in BOOLEAN}
    \cup {DefaultOpts, [DefaultOpts EXCEPT !.outdir = ""]}

\* the handler is inside the `with queue_lock` block
InBody(t) == pc[t] \notin {"idle", "queued", "returned", "done"}

Goto(t, l) == pc' = [pc EXCEPT ![t] = l]

\* raise e: the body is left, the lock still held until the with block is exited
Raise(t, e) ==
    /\ exc' = [exc EXCEPT ![t] = e]
    /\ Goto(t, "exit")


(***************************************************************************)
(* wrap_gradio_call and wrap_gradio_gpu_call.                              *)
(***************************************************************************)
\* a handler is called with arguments drawn from R: wrap_gradio_call's f starts
\* and reaches `with queue_lock`; the calls are followed up to MaxLog entries of the
\* history log, and past its first entry those that write to it
Call(t, R) ==
    /\ RequestFrame
    /\ pc[t] = "idle"
    /\ Len(history_log) < MaxLog
    /\ \E r \in R :
          /\ history_log # <<>> => r.mode = "Text-to-Image"
          /\ req' = [req EXCEPT ![t] = r]
    /\ Goto(t, "queued")
    /\ UNCHANGED <<queue_lock, interrupted, opts, p, n, step, output_images, i, history, exc,
                   res, called, hit, completed, runs, saved, history_log, intOwners>>

\* `with queue_lock:` is entered
Acquire(t) ==
    /\ RequestFrame
    /\ pc[t] = "queued"
    /\ ~queue_lock
    /\ queue_lock' = TRUE
    /\ Goto(t, "entered")
    /\ intOwners' = intOwners \ {t}
    /\ UNCHANGED <<interrupted, opts, req, p, n, step, output_images, i, history, exc, res,
                   called, hit, completed, runs, saved, history_log>>

\* a release that is skipped when the body raised
Release_NotOnRaise(t) ==
    /\ RequestFrame
    /\ pc[t] = "exit"
    /\ queue_lock' = (exc[t] # "none")
    /\ Goto(t, "returned")
    /\ UNCHANGED <<interrupted, opts, req, p, n, step, output_images, i, history, exc, res,
                   called, hit, completed, runs, saved, history_log, intOwners>>

\* the with block is left, by return or by an exception: the lock is released
Release(t) ==
    /\ RequestFrame
    /\ pc[t] = "exit"
    /\ queue_lock' = FALSE
    /\ Goto(t, "returned")
    /\ UNCHANGED <<interrupted, opts, req, p, n, step, output_images, i, history, exc, res,
                   called, hit, completed, runs, saved, history_log, intOwners>>

\* f"<div class='error'>{plaintext_to_html(type(e).__name__+': '+str(e))}</div>"
ErrorHtml(e) == <<"<div class='error'>", e, "</div>">>

\* OutputInfo.html()
InfoHtml(info) ==
    <<"prompt-info", info.prompt, "params-info", info.params, "comments-info", info.comments>>

\* the html a handler returns last: processed.info.html() for do_generate, '' for
\* run_postprocessing; the drivers return the info of their first process_images call
ReturnedHtml(t) == IF req[t].handler = "do_generate" THEN InfoHtml(runs[t][1].info) ELSE <<>>

\* processed.js() for do_generate, the plain text of run_postprocessing
ReturnedJs(t) ==
    IF req[t].handler = "do_generate"
    THEN [seed |-> runs[t][1].seed, width |-> p[t].width, height |-> p[t].height,
          steps |-> p[t].steps]
    ELSE NoJs

PerformanceHtml == <<"<p class='performance'>">>

\* the rest of wrap_gradio_call's f: try/except around the call, the time taken
\* appended to the last item, state.interrupted = False, return tuple(res)
WrapReturn(t) ==
    /\ RequestFrame
    /\ pc[t] = "returned"
    /\ Goto(t, "done")
    /\ IF exc[t] = "none"
       THEN /\ res' = [res EXCEPT ![t] = [kind |-> "ok", images |-> output_images[t],
                                          js |-> ReturnedJs(t),
                                          html |-> ReturnedHtml(t) \o PerformanceHtml]]
            /\ interrupted' = FALSE
       ELSE IF Catches(exc[t])
       THEN /\ res' = [res EXCEPT ![t] = [kind |-> "error", images |-> <<>>, js |-> NoJs,
                                          html |-> ErrorHtml(exc[t]) \o PerformanceHtml]]
            /\ interrupted' = FALSE
       ELSE /\ res' = [res EXCEPT ![t] = [kind |-> "propagated", images |-> <<>>, js |-> NoJs,
                                          html |-> <<>>]]
            /\ UNCHANGED interrupted
    /\ UNCHANGED <<queue_lock, opts, req, p, n, step, output_images, i, history, exc,
                   called, hit, completed, runs, saved, history_log, intOwners>>

\* the interface takes the returned tuple; the handler is ready for its next call
Respond(t) ==
    /\ RequestFrame
    /\ pc[t] = "done"
    /\ Goto(t, "idle")
    /\ req' = [req EXCEPT ![t] = NoRequest]
    /\ res' = [res EXCEPT ![t] = NoRes]
    /\ exc' = [exc EXCEPT ![t] = "none"]
    /\ called' = [called EXCEPT ![t] = FALSE]
    /\ hit' = [hit EXCEPT ![t] = FALSE]
    /\ completed' = [completed EXCEPT ![t] = <<>>]
    /\ output_images' = [output_images EXCEPT ![t] = <<>>]
    /\ history' = [history EXCEPT ![t] = <<>>]
    /\ p' = [p EXCEPT ![t] = NoP]
    /\ n' = [n EXCEPT ![t] = 0]
    /\ step' = [step EXCEPT ![t] = 0]
    /\ i' = [i EXCEPT ![t] = 0]
    /\ intOwners' = intOwners \ {t}
    /\ runs' = [runs EXCEPT ![t] = <<>>]
    /\ saved' = [saved EXCEPT ![t] = <<>>]
    /\ UNCHANGED <<queue_lock, interrupted, opts, history_log>>

\* State.interrupt()
Interrupt ==
    /\ RequestFrame
    /\ interrupted' = TRUE
    /\ hit' = [t \in Threads |-> hit[t] \/ InBody(t)]
    /\ intOwners' = {t \in Threads : InBody(t)}
    /\ UNCHANGED <<queue_lock, opts, pc, req, p, n, step, output_images, i, history, exc, res,
                   called, completed, runs, saved, history_log>>


(***************************************************************************)
(* do_generate, txt2img, img2img, run_postprocessing.                      *)
(***************************************************************************)
\* what no step of a handler's body changes
BodyFrame == RequestFrame /\ UNCHANGED <<queue_lock, interrupted, opts, req, res, hit, intOwners>>

\* denoising strengths are counted in units of 1 / (100 * 20^MaxBatch), so that
\* MaxBatch multiplications by 0.95 = 19/20 are exact
StrengthUnit == Pow(20, MaxBatch)

StrengthFloor == 10 * StrengthUnit

\* max(p.denoising_strength * 0.95, 0.1)
DecayNoFloor(strength) == (strength * 19) \div 20

Decay(strength) == Max((strength * 19) \div 20, StrengthFloor)

\* the checks at the head of do_generate
ValidationError(r) ==
    /\ r.mode = "Text-to-Image" \/ r.mode = "Image-to-Image"
    /\ \/ r.batch_count <= 0
       \/ r.batch_size <= 0
       \/ r.image_height % 64 # 0 \/ r.image_width % 64 # 0

\* the sampler init constructs: samplers[self.sampler_index] for txt2img,
\* samplers_for_img2img[self.sampler_index] for img2img, "IndexError" when the list has
\* no such index
ConstructedSampler(kind, sampler_index) ==
    LET list == IF kind = "img2img" THEN samplers_for_img2img ELSE samplers
    IN  IF sampler_index + 1 \in DOMAIN list THEN list[sampler_index + 1] ELSE "IndexError"

\* the StableDiffusionProcessing object txt2img and img2img construct
NewP(r, kind, sampler) ==
    [kind |-> kind, n_iter |-> r.batch_count, batch_size |-> r.batch_size,
     do_not_save_grid |-> FALSE, do_not_save_samples |-> FALSE,
     init_images |-> IF kind = "img2img"
                     THEN <<IF r.has_image THEN Img("input", 0, 0, 0) ELSE NoImage>>
                     ELSE <<>>,
     sampler |-> sampler, steps |-> MaxSteps, ret |-> "generated",
     work |-> <<>>, batch_count |-> 0, all_prompts |-> <<>>, all_seeds |-> <<>>,
     seed |-> r.seed, denoising_strength |-> r.denoise * StrengthUnit,
     width |-> r.image_width, height |-> r.image_height, prompt |-> r.prompt,
     sampler_index |-> r.sampler_index]

\* do_generate up to the call of process_images or of a driver's loop
do_generate(t) ==
    /\ pc[t] = "entered"
    /\ req[t].handler = "do_generate"
    /\ BodyFrame
    /\ UNCHANGED <<n, step, output_images, i, history, completed, runs, saved, history_log>>
    /\ LET r == req[t]
       IN  IF ValidationError(r)
           THEN Raise(t, "Exception") /\ UNCHANGED <<p, called>>
           ELSE IF r.mode = "Text-to-Image"
           THEN /\ called' = [called EXCEPT ![t] = TRUE]
                /\ p' = [p EXCEPT ![t] = NewP(r, "txt2img", ConstructedSampler("txt2img", r.sampler_index))]
                /\ Goto(t, "process_images")
                /\ UNCHANGED exc
           ELSE IF r.mode = "Image-to-Image" \/ r.mode = "Inpainting"
           THEN /\ called' = [called EXCEPT ![t] = TRUE]
                /\ IF r.mode = "Inpainting" /\ ~r.has_image
                   THEN \* init_img_with_mask['image'] of None
                        Raise(t, "TypeError") /\ UNCHANGED p
                   ELSE /\ p' = [p EXCEPT ![t] =
                                   NewP(r, "img2img",
                                        ConstructedSampler("img2img", r.sampler_index))]
                        /\ Goto(t, IF r.mode = "Image-to-Image" /\ r.upscale THEN "upscale"
                                   ELSE IF r.mode = "Image-to-Image" /\ r.loopback THEN "loopback"
                                   ELSE "process_images")
                        /\ UNCHANGED exc
           ELSE Raise(t, "Exception") /\ UNCHANGED <<p, called>>

\* run_postprocessing
run_postprocessing(t) ==
    /\ pc[t] = "entered"
    /\ req[t].handler = "run_postprocessing"
    /\ BodyFrame
    /\ UNCHANGED <<p, n, step, i, history, called, completed, runs, saved, history_log>>
    /\ IF ~req[t].has_image
       THEN Raise(t, "Exception") /\ UNCHANGED output_images
       ELSE /\ output_images' = [output_images EXCEPT ![t] = <<Img("restored", 0, 0, 0)>>]
            /\ Goto(t, "exit")
            /\ UNCHANGED exc

(***************************************************************************)
(* process_images.                                                         *)
(***************************************************************************)
\* StableDiffusionProcessingImg2Img.init: the batch size it leaves in self.batch_size,
\* 0 standing for its RuntimeError
InitBatchSize(q) ==
    IF Len(q.init_images) = 1 THEN q.batch_size
    ELSE IF Len(q.init_images) <= q.batch_size THEN Len(q.init_images)
    ELSE 0

\* infotext(): the prompt and the generation parameters
infotext(q, seed) ==
    OutputInfo(q.prompt, <<"Steps", q.steps, "Sampler", samplers[q.sampler_index + 1],
                           "Seed", seed>>)

\* int(random.randrange(4294967294) if p.seed == -1 else p.seed)
ResolvedSeeds(seed) == IF seed = -1 THEN RandomSeeds ELSE {seed}

\* all_prompts = p.batch_size * p.n_iter * [prompt]
all_prompts(q) == [k \in 1..(q.batch_size * q.n_iter) |-> q.prompt]

\* seeds that do not grow with the work item
all_seeds_Same(q, seed) == [k \in 1..Len(all_prompts(q)) |-> seed]

\* all_seeds = [seed + x for x in range(len(all_prompts))]
all_seeds(q, seed) == [k \in 1..Len(all_prompts(q)) |-> seed + (k - 1)]

\* the head of process_images: the work items, then p.init()
process_images(t) ==
    /\ pc[t] = "process_images"
    /\ BodyFrame
    /\ UNCHANGED <<step, i, history, called, completed, saved, history_log>>
    /\ LET q == p[t]
       IN  IF q.sampler = "IndexError"
           THEN \* the first statement of init
                Raise(t, "IndexError") /\ UNCHANGED <<p, n, output_images, runs>>
           ELSE IF q.kind = "img2img" /\ (q.init_images = <<>> \/ \E k \in DOMAIN q.init_images :
                                                              q.init_images[k] = NoImage)
           THEN Raise(t, "Exception") /\ UNCHANGED <<p, n, output_images, runs>>
           ELSE IF q.kind = "img2img" /\ Len(q.init_images) > 1
                   /\ Len(q.init_images) > q.batch_size
           THEN Raise(t, "RuntimeError") /\ UNCHANGED <<p, n, output_images, runs>>
           ELSE /\ \E seed \in ResolvedSeeds(q.seed) :
                      /\ p' = [p EXCEPT ![t] = [q EXCEPT
                                  !.all_prompts = all_prompts(q),
                                  !.all_seeds = all_seeds(q, seed),
                                  !.batch_size = IF q.kind = "img2img" THEN InitBatchSize(q)
                                                 ELSE q.batch_size]]
                      /\ runs' = [runs EXCEPT ![t] = Append(runs[t],
                                  [seed |-> seed, denoising_strength |-> q.denoising_strength,
                                   batch_size |-> q.batch_size, info |-> infotext(q, seed)])]
                /\ n' = [n EXCEPT ![t] = 0]
                /\ output_images' = [output_images EXCEPT ![t] = <<>>]
                /\ Goto(t, "batch")
                /\ UNCHANGED exc

\* for n in range(p.n_iter): if state.interrupted: break; the prompts and seeds of
\* the batch, the conditioning and the noise
BatchHead(t) ==
    /\ pc[t] = "batch"
    /\ BodyFrame
    /\ UNCHANGED <<p, n, output_images, i, history, called, completed, runs, saved, history_log>>
    /\ IF n[t] < p[t].n_iter /\ ~interrupted
       THEN LET prompts == Slice(p[t].all_prompts, n[t] * p[t].batch_size,
                                 (n[t] + 1) * p[t].batch_size)
            IN  IF prompts = <<>>
                THEN \* create_random_tensors stacks an empty list
                     Raise(t, "RuntimeError") /\ UNCHANGED step
                ELSE /\ step' = [step EXCEPT ![t] = 0]
                     /\ Goto(t, "sample")
                     /\ UNCHANGED exc
       ELSE Goto(t, "grid") /\ UNCHANGED <<step, exc>>

\* one turn of the sampler's loop (p.sample calls sample or sample_img2img):
\* extended_trange breaks on state.interrupted, the DDIM and PLMS loops run to their end
SampleStep(t) ==
    /\ pc[t] = "sample"
    /\ BodyFrame
    /\ UNCHANGED <<p, n, output_images, i, history, called, completed, runs, saved, history_log, exc>>
    /\ IF /\ step[t] < LoopTurns(p[t].kind, p[t].sampler, p[t].denoising_strength,
                                 StrengthUnit, p[t].steps)
          /\ ~(IsKDiffusion(p[t].sampler) /\ interrupted)
       THEN step' = [step EXCEPT ![t] = step[t] + 1] /\ UNCHANGED pc
       ELSE Goto(t, "decode") /\ UNCHANGED step

\* what save_image is given: the image and the text of its info argument
save_image(image, info) == [image |-> image, info |-> info]

\* str(None): the text "None" in place of an info block
NoneText == [prompt |-> <<"None">>, params |-> <<>>, comments |-> <<>>]

\* the process_images call under way, or the last one returned
LastRun(t) == runs[t][Len(runs[t])]

\* the samples of the batch are decoded and appended to output_images
BatchImages(t) ==
    LET count == Len(Slice(p[t].all_prompts, n[t] * p[t].batch_size,
                           (n[t] + 1) * p[t].batch_size))
        seeds == Slice(p[t].all_seeds, n[t] * p[t].batch_size, (n[t] + 1) * p[t].batch_size)
    IN  [k \in 1..count |->
            [Img("sample",
                 IF p[t].kind # "img2img" THEN 0
                 ELSE IF Len(p[t].init_images) = 1 THEN p[t].init_images[1].idx
                 ELSE p[t].init_images[k].idx,
                 i[t], Len(output_images[t]) + k) EXCEPT !.seed = seeds[k]]]

BatchFinish(t) ==
    /\ pc[t] = "decode"
    /\ BodyFrame
    /\ UNCHANGED <<p, step, i, history, called, exc, runs, history_log>>
    /\ saved' = [saved EXCEPT ![t] =
          IF opts.samples_save /\ ~p[t].do_not_save_samples
          THEN saved[t] \o [k \in DOMAIN BatchImages(t) |->
                                save_image(BatchImages(t)[k], LastRun(t).info)]
          ELSE saved[t]]
    /\ output_images' = [output_images EXCEPT ![t] = output_images[t] \o BatchImages(t)]
    /\ completed' = [completed EXCEPT ![t] = completed[t] \o BatchImages(t)]
    /\ n' = [n EXCEPT ![t] = n[t] + 1]
    /\ Goto(t, "batch")

\* image_grid(imgs, batch_size, rows): the exception it raises, "none" if none
ImageGridError(imgs, batch_size, rows) ==
    LET r == IF rows # 0 THEN rows
             ELSE IF opts.n_rows > 0 THEN opts.n_rows
             ELSE IF opts.n_rows = 0 THEN batch_size
             ELSE RoundSqrt(Len(imgs))
    IN  IF r = 0 THEN "ZeroDivisionError"
        ELSE IF imgs = <<>> THEN "IndexError"
        ELSE "none"

\* the end of process_images: the grid, and the Processed it returns
GridStage(t) ==
    /\ pc[t] = "grid"
    /\ BodyFrame
    /\ UNCHANGED <<p, n, step, i, history, called, completed, runs, history_log>>
    /\ LET out == output_images[t]
           unwanted_grid_because_of_img_count == Len(out) < 2 /\ opts.grid_only_if_multiple
       IN  IF ~p[t].do_not_save_grid /\ ~unwanted_grid_because_of_img_count
           THEN IF ImageGridError(out, p[t].batch_size, 0) # "none"
                THEN Raise(t, ImageGridError(out, p[t].batch_size, 0))
                     /\ UNCHANGED <<output_images, saved>>
                ELSE /\ output_images' = [output_images EXCEPT ![t] =
                            IF opts.return_grid THEN <<Img("grid", 0, i[t], 0)>> \o out ELSE out]
                     /\ saved' = [saved EXCEPT ![t] =
                            IF opts.grid_save
                            THEN Append(saved[t], save_image(Img("grid", 0, i[t], 0),
                                                             LastRun(t).info))
                            ELSE saved[t]]
                     /\ Goto(t, p[t].ret)
                     /\ UNCHANGED exc
           ELSE Goto(t, p[t].ret) /\ UNCHANGED <<output_images, saved, exc>>

\* save_to_history's entry: at most three images, the grid skipped, and the html
HistoryEntry(images, html) ==
    [images |-> IF opts.return_grid /\ Len(images) > 1 THEN Slice(images, 1, 4)
                ELSE Slice(images, 0, 3),
     description |-> html]

\* txt2img and img2img (classic, inpainting) return processed.images, js, html; do_generate
\* then saves a text-to-image result to the history
Generated(t) ==
    /\ pc[t] = "generated"
    /\ BodyFrame
    /\ UNCHANGED <<p, n, step, output_images, i, history, called, completed, runs, saved>>
    /\ IF req[t].mode = "Text-to-Image" /\ opts.enable_history
       THEN IF opts.outdir = Undefined
            THEN Raise(t, "AttributeError") /\ UNCHANGED history_log
            ELSE /\ history_log' = Append(history_log,
                        HistoryEntry(output_images[t], InfoHtml(runs[t][1].info)))
                 /\ Goto(t, "exit")
                 /\ UNCHANGED exc
       ELSE Goto(t, "exit") /\ UNCHANGED <<history_log, exc>>

\* erase_history: os.remove of the history file
erase_history ==
    /\ RequestFrame
    /\ opts.outdir # Undefined
    /\ history_log # <<>>
    /\ history_log' = <<>>
    /\ UNCHANGED <<queue_lock, interrupted, opts, pc, req, p, n, step, output_images, i, history,
                   exc, res, called, hit, completed, intOwners, runs, saved>>


(***************************************************************************)
(* img2img's loopback driver.                                              *)
(***************************************************************************)
\* for i in range(n_iter): ... processed = process_images(p); after the loop the
\* summary grid and the Processed of the history
LoopbackHead(t) ==
    /\ pc[t] = "loopback"
    /\ BodyFrame
    /\ UNCHANGED <<n, step, i, history, called, completed, runs, history_log>>
    /\ IF i[t] < req[t].batch_count
       THEN /\ p' = [p EXCEPT ![t] = [p[t] EXCEPT !.n_iter = 1, !.batch_size = 1,
                                                  !.do_not_save_grid = TRUE,
                                                  !.ret = "loopback_next"]]
            /\ Goto(t, "process_images")
            /\ UNCHANGED <<output_images, saved, exc>>
       ELSE IF ImageGridError(history[t], req[t].batch_size, 1) # "none"
       THEN Raise(t, ImageGridError(history[t], req[t].batch_size, 1))
            /\ UNCHANGED <<p, output_images, saved>>
       ELSE \* save_image(grid, ..., info=str(info)) with info = None
            /\ saved' = [saved EXCEPT ![t] =
                   Append(saved[t], save_image(Img("grid", 0, 0, 0), NoneText))]
            /\ output_images' = [output_images EXCEPT ![t] = history[t]]
            /\ Goto(t, "exit")
            /\ UNCHANGED <<p, exc>>

\* p.init_images = [processed.images[0]]; ...; history.append(processed.images[0])
LoopbackNext(t) ==
    /\ pc[t] = "loopback_next"
    /\ BodyFrame
    /\ UNCHANGED <<n, step, output_images, called, completed, runs, saved, history_log>>
    /\ IF output_images[t] = <<>>
       THEN Raise(t, "IndexError") /\ UNCHANGED <<p, i, history>>
       ELSE /\ p' = [p EXCEPT ![t] = [p[t] EXCEPT
                        !.init_images = <<output_images[t][1]>>,
                        !.seed = runs[t][Len(runs[t])].seed + 1,
                        !.denoising_strength = Decay(p[t].denoising_strength)]]
            /\ history' = [history EXCEPT ![t] = Append(history[t], output_images[t][1])]
            /\ i' = [i EXCEPT ![t] = i[t] + 1]
            /\ Goto(t, "loopback")
            /\ UNCHANGED exc

(***************************************************************************)
(* img2img's SD-upscale driver.                                            *)
(***************************************************************************)
\* the upscaler doubles the image; split_grid with the request's tile size
UpscaleTiles(r) ==
    GridCount(2 * r.src_w, r.image_width, opts.sd_upscale_overlap)
    * GridCount(2 * r.src_h, r.image_height, opts.sd_upscale_overlap)

\* img = upscaler(init_img); grid = split_grid(...); the work list; batch_count
UpscaleSplit(t) ==
    /\ pc[t] = "upscale"
    /\ BodyFrame
    /\ UNCHANGED <<n, step, output_images, called, completed, runs, saved, history_log>>
    /\ IF ~req[t].has_image
       THEN Raise(t, "AttributeError") /\ UNCHANGED <<p, i, history>>
       ELSE LET work == [k \in 1..UpscaleTiles(req[t]) |-> Img("tile", k, 0, k)]
            IN  /\ p' = [p EXCEPT ![t] = [p[t] EXCEPT
                            !.n_iter = 1, !.do_not_save_grid = TRUE,
                            !.do_not_save_samples = TRUE, !.work = work,
                            !.batch_count = Ceil(Len(work), p[t].batch_size),
                            !.ret = "upscale_next"]]
                /\ i' = [i EXCEPT ![t] = 0]
                /\ history' = [history EXCEPT ![t] = <<>>]
                /\ Goto(t, "upscale_batch")
                /\ UNCHANGED exc

\* every batch takes the first tiles again
WorkBatch_FromStart(work, k, size) == Slice(work, 0, size)

\* work[i * p.batch_size:(i + 1) * p.batch_size]
WorkBatch(work, k, size) == Slice(work, k * size, (k + 1) * size)

\* for i in range(batch_count): p.init_images = work[...]; process_images(p); after
\* the loop the tiles are replaced, combined and returned
UpscaleHead(t) ==
    /\ pc[t] = "upscale_batch"
    /\ BodyFrame
    /\ UNCHANGED <<n, step, i, history, called, completed, runs, history_log, exc>>
    /\ IF i[t] < p[t].batch_count
       THEN /\ p' = [p EXCEPT ![t] = [p[t] EXCEPT !.init_images =
                        WorkBatch(p[t].work, i[t], p[t].batch_size)]]
            /\ Goto(t, "process_images")
            /\ UNCHANGED <<output_images, saved>>
       ELSE LET work_results == history[t]
                tiles == [k \in 1..Len(p[t].work) |->
                              IF k <= Len(work_results) THEN work_results[k]
                              ELSE Img("blank", 0, 0, 0)]
            IN  /\ output_images' = [output_images EXCEPT ![t] =
                        <<[Img("combined", 0, 0, 0) EXCEPT !.tiles = tiles]>>]
                /\ saved' = [saved EXCEPT ![t] =
                       Append(saved[t], save_image([Img("combined", 0, 0, 0) EXCEPT !.tiles = tiles],
                                                   runs[t][1].info))]
                /\ Goto(t, "exit")
                /\ UNCHANGED p

\* p.seed = processed.seed + 1; work_results += processed.images
UpscaleNext(t) ==
    /\ pc[t] = "upscale_next"
    /\ BodyFrame
    /\ UNCHANGED <<n, step, output_images, called, completed, runs, saved, history_log, exc>>
    /\ p' = [p EXCEPT ![t] = [p[t] EXCEPT !.seed = runs[t][Len(runs[t])].seed + 1]]
    /\ history' = [history EXCEPT ![t] = history[t] \o output_images[t]]
    /\ i' = [i EXCEPT ![t] = i[t] + 1]
    /\ Goto(t, "upscale_batch")

(***************************************************************************)
(* get_crop_region.  A mask is an array of height h and width w; px[<<x,   *)
(* y>>] is the value at row y, column x.                                   *)
(***************************************************************************)
\* (mask[:, x] == 0).all() and (mask[y] == 0).all()
ColumnIsZero(mask, x) == \A y \in 0..(mask.height - 1) : mask.px[<<x, y>>] = 0

RowIsZero(mask, y) == \A x \in 0..(mask.width - 1) : mask.px[<<x, y>>] = 0

\* the four loops: the zero columns counted from the left and from the right, the
\* zero rows from the top and from the bottom, each up to the first non-zero one
RECURSIVE CropLeft(_, _)
CropLeft(mask, x) ==
    IF x >= mask.width \/ ~ColumnIsZero(mask, x) THEN 0 ELSE 1 + CropLeft(mask, x + 1)

RECURSIVE CropRight(_, _)
CropRight(mask, x) ==
    IF x < 0 \/ ~ColumnIsZero(mask, x) THEN 0 ELSE 1 + CropRight(mask, x - 1)

RECURSIVE CropTop(_, _)
CropTop(mask, y) ==
    IF y >= mask.height \/ ~RowIsZero(mask, y) THEN 0 ELSE 1 + CropTop(mask, y + 1)

RECURSIVE CropBottom(_, _)
CropBottom(mask, y) ==
    IF y < 0 \/ ~RowIsZero(mask, y) THEN 0 ELSE 1 + CropBottom(mask, y - 1)

\* a box whose right and bottom edges are not clamped to the image
get_crop_region_NoClamp(mask, pad) ==
    <<Max(CropLeft(mask, 0) - pad, 0),
      Max(CropTop(mask, 0) - pad, 0),
      mask.width - CropRight(mask, mask.width - 1) + pad,
      mask.height - CropBottom(mask, mask.height - 1) + pad>>

\* (left, top, right, bottom)
get_crop_region(mask, pad) ==
    <<Max(CropLeft(mask, 0) - pad, 0),
      Max(CropTop(mask, 0) - pad, 0),
      Min(mask.width - CropRight(mask, mask.width - 1) + pad, mask.width),
      Min(mask.height - CropBottom(mask, mask.height - 1) + pad, mask.height)>>

(***************************************************************************)
(* The crop run: a mask with at most MaxMaskPixels non-zero values, a pad. *)
(***************************************************************************)
MaskOf(w, h, nonzero) ==
    [width |-> w, height |-> h, px |-> [q \in Pixels(w, h) |-> IF q \in nonzero THEN 255 ELSE 0]]

Masks ==
    UNION {{MaskOf(w, h, nz) : nz \in {s \in SUBSET Pixels(w, h) : Cardinality(s) <= MaxMaskPixels}} :
              w \in 1..MaxMaskDim, h \in 1..MaxMaskDim}

NoBox == <<0, 0, 0, 0>>

CropIdle ==
    /\ c_pc = "idle"
    /\ c_mask = MaskOf(0, 0, {})
    /\ c_pad = 0
    /\ crop_region = NoBox

InitCrop ==
    /\ c_pc = "start"
    /\ c_mask \in Masks
    /\ c_pad \in 0..MaxPad
    /\ crop_region = NoBox

CropFrame == UNCHANGED <<reqVars, gridVars, matrixVars, samplerVars, embedderVars, inpaintVars, lowvramVars, loaderVars>>

GetCropRegion ==
    /\ CropFrame
    /\ c_pc = "start"
    /\ crop_region' = get_crop_region(c_mask, c_pad)
    /\ c_pc' = "cropped"
    /\ UNCHANGED <<c_mask, c_pad>>

(***************************************************************************)
(* process_images' expansion of the request into prompts and seeds.        *)
(* Strings are sequences of characters.                                    *)
(***************************************************************************)
\* prompt.split("|")
RECURSIVE SplitPipe(_, _, _)
SplitPipe(str, k, cur) ==
    IF k > Len(str) THEN <<cur>>
    ELSE IF str[k] = "|" THEN <<cur>> \o SplitPipe(str, k + 1, <<>>)
    ELSE SplitPipe(str, k + 1, Append(cur, str[k]))

Split(str) == SplitPipe(str, 1, <<>>)

\* text.strip().strip(',')
StripClause(text) == Strip(Strip(text, {" "}), {","})

\* ", ".join(list)
RECURSIVE Join(_)
Join(list) ==
    IF list = <<>> THEN <<>>
    ELSE IF Len(list) = 1 THEN list[1]
    ELSE list[1] \o <<",", " ">> \o Join(Tail(list))

\* a test of bit k + 1 in place of bit k
BitSet_OffByOne(num, k) == (num \div Pow2(k + 1)) % 2 = 1

\* combination_num & (1 << k)
BitSet(num, k) == (num \div Pow2(k)) % 2 = 1

\* [text.strip().strip(',') for n, text in enumerate(prompt_matrix_parts[1:])
\*  if combination_num & (1 << n)]
RECURSIVE SelectedFrom(_, _, _)
SelectedFrom(parts, combination_num, k) ==
    IF k + 2 > Len(parts) THEN <<>>
    ELSE (IF BitSet(combination_num, k) THEN <<StripClause(parts[k + 2])>> ELSE <<>>)
         \o SelectedFrom(parts, combination_num, k + 1)

\* selected_prompts of one combination, with the first part put after or before
SelectedPrompts(parts, combination_num, add_to_start) ==
    IF add_to_start THEN Append(SelectedFrom(parts, combination_num, 0), parts[1])
    ELSE <<parts[1]>> \o SelectedFrom(parts, combination_num, 0)

\* the expansion: all_prompts, all_seeds and p.n_iter for the resolved seed
Expansion(q, o, seed) ==
    IF q.prompt_matrix
    THEN LET prompt_matrix_parts == Split(q.prompt)
             combination_count == Pow2(Len(prompt_matrix_parts) - 1)
             selected == [c \in 1..combination_count |->
                             SelectedPrompts(prompt_matrix_parts, c - 1,
                                             o.prompt_matrix_add_to_start)]
         IN  [seed |-> seed,
              selected |-> selected,
              all_prompts |-> [c \in 1..combination_count |-> Join(selected[c])],
              all_seeds |-> [c \in 1..combination_count |-> seed],
              n_iter |-> Ceil(combination_count, q.batch_size)]
    ELSE [seed |-> seed,
          selected |-> <<>>,
          all_prompts |-> [c \in 1..(q.batch_size * q.n_iter) |-> q.prompt],
          all_seeds |-> [c \in 1..(q.batch_size * q.n_iter) |-> seed + (c - 1)],
          n_iter |-> q.n_iter]

(***************************************************************************)
(* The expansion run: a prompt of at most MaxPromptLen characters.         *)
(***************************************************************************)
PromptChars == {"a", ",", " ", "|"}

Prompts == UNION {[1..len -> PromptChars] : len \in 0..MaxPromptLen}

NoExpansion == [seed |-> 0, selected |-> <<>>, all_prompts |-> <<>>, all_seeds |-> <<>>,
                n_iter |-> 0]

\* an image placed by its position in the list, down the columns first
image_grid_ColumnMajor(count, rows) ==
    LET cols == Ceil(count, rows)
    IN  [cols |-> cols, rows |-> rows,
         cells |-> [k \in 1..count |-> <<(k - 1) \div rows, (k - 1) % rows>>]]

\* image_grid(imgs, batch_size, rows) for rows given: cols = math.ceil(len(imgs) / rows),
\* and image i is pasted at column i % cols, row i // cols
image_grid(count, rows) ==
    LET cols == Ceil(count, rows)
    IN  [cols |-> cols, rows |-> rows,
         cells |-> [k \in 1..count |-> <<(k - 1) % cols, (k - 1) \div cols>>]]

\* [[GridAnnotation(x, is_active=pos & (1 << i) != 0) for i, x in enumerate(texts)]
\*  for pos in range(1 << len(texts))]
Annotations(texts) ==
    [pos \in 1..Pow2(Len(texts)) |->
        [k \in 1..Len(texts) |-> [text |-> texts[k], is_active |-> BitSet(pos - 1, k - 1)]]]

\* draw_prompt_matrix: the clauses after the first part, the first half of them along
\* the columns and the rest along the rows
draw_prompt_matrix(all_parts) ==
    LET prompts == Tail(all_parts)
        boundary == Ceil(Len(prompts), 2)
    IN  [hor_texts |-> Annotations(Slice(prompts, 0, boundary)),
         ver_texts |-> Annotations(Slice(prompts, boundary, Len(prompts)))]

NoMatrixGrid ==
    [made |-> FALSE, annotated |-> FALSE, cols |-> 0, rows |-> 0, cells |-> <<>>,
     hor_texts |-> <<>>, ver_texts |-> <<>>]

MatrixIdle ==
    /\ m_pc = "idle"
    /\ m_p = [prompt |-> <<>>, seed |-> 0, batch_size |-> 0, n_iter |-> 0,
              prompt_matrix |-> FALSE]
    /\ m_opts = [prompt_matrix_add_to_start |-> TRUE, grid_only_if_multiple |-> TRUE]
    /\ m_out = NoExpansion
    /\ m_grid = NoMatrixGrid

InitMatrix ==
    /\ m_pc = "start"
    /\ m_p \in [prompt : Prompts, seed : {-1, 42}, batch_size : 1..MaxBatch,
                n_iter : 1..MaxBatch, prompt_matrix : BOOLEAN]
    /\ m_opts \in [prompt_matrix_add_to_start : BOOLEAN, grid_only_if_multiple : BOOLEAN]
    /\ m_out = NoExpansion
    /\ m_grid = NoMatrixGrid

MatrixFrame == UNCHANGED <<reqVars, gridVars, cropVars, samplerVars, embedderVars, inpaintVars, lowvramVars, loaderVars>>

\* seed = int(random.randrange(4294967294) if p.seed == -1 else p.seed), then the
\* expansion
Expand ==
    /\ MatrixFrame
    /\ m_pc = "start"
    /\ \E seed \in (IF m_p.seed = -1 THEN RandomSeeds ELSE {m_p.seed}) :
          m_out' = Expansion(m_p, m_opts, seed)
    /\ m_pc' = "expanded"
    /\ UNCHANGED <<m_p, m_opts, m_grid>>

\* the end of process_images for a prompt matrix whose batches all ran: one image for
\* every prompt; unless the grid is unwanted, image_grid with rows = 1 <<
\* ((len(prompt_matrix_parts) - 1) // 2), then draw_prompt_matrix, whose
\* draw_grid_annotations asserts the numbers of texts (the exception is caught)
PromptMatrixGrid ==
    /\ MatrixFrame
    /\ m_pc = "expanded" /\ m_p.prompt_matrix
    /\ LET prompt_matrix_parts == Split(m_p.prompt)
           images == m_out.all_prompts
           unwanted_grid_because_of_img_count ==
               Len(images) < 2 /\ m_opts.grid_only_if_multiple
           placed == image_grid(Len(images), Pow2((Len(prompt_matrix_parts) - 1) \div 2))
           texts == draw_prompt_matrix(prompt_matrix_parts)
       IN  m_grid' =
               IF unwanted_grid_because_of_img_count THEN NoMatrixGrid
               ELSE [made |-> TRUE,
                     annotated |-> /\ placed.cols = Len(texts.hor_texts)
                                   /\ placed.rows = Len(texts.ver_texts),
                     cols |-> placed.cols, rows |-> placed.rows, cells |-> placed.cells,
                     hor_texts |-> texts.hor_texts, ver_texts |-> texts.ver_texts]
    /\ m_pc' = "grid"
    /\ UNCHANGED <<m_p, m_opts, m_out>>


(***************************************************************************)
(* sample_img2img of KDiffusionSampler and VanillaStableDiffusionSampler:  *)
(* one call, from the computation of t_enc to the end of the sampler's     *)
(* loop.  The strength is counted in hundredths.                           *)
(***************************************************************************)
NoSampling == [t_enc |-> 0, noised_at |-> 0, turns |-> 0, done |-> 0]

SamplerIdle ==
    /\ s_pc = "idle"
    /\ s_p = [sampler |-> "none", steps |-> 0, denoising_strength |-> 0]
    /\ s_x = NoSampling

InitSampler ==
    /\ s_pc = "start"
    /\ s_p \in [sampler : {samplers_for_img2img[k] : k \in DOMAIN samplers_for_img2img},
                steps : 1..MaxSamplerSteps, denoising_strength : 0..100]
    /\ s_x = NoSampling

SamplerFrame == UNCHANGED <<reqVars, gridVars, cropVars, matrixVars, embedderVars, inpaintVars, lowvramVars, loaderVars>>

\* KDiffusionSampler.sample_img2img up to the call of the sampling function: the noise
\* is scaled by sigmas[p.steps - t_enc - 1] and the schedule starts there
KDiffusionSampler_sample_img2img ==
    /\ SamplerFrame
    /\ s_pc = "start" /\ IsKDiffusion(s_p.sampler)
    /\ LET sched == sigma_sched(s_p.denoising_strength, 1, s_p.steps)
       IN  s_x' = [t_enc |-> t_enc(s_p.denoising_strength, 1, s_p.steps),
                   noised_at |-> sched[1],
                   turns |-> LoopTurns("img2img", s_p.sampler, s_p.denoising_strength, 1,
                                       s_p.steps),
                   done |-> 0]
    /\ s_pc' = "loop"
    /\ UNCHANGED s_p

\* VanillaStableDiffusionSampler.sample_img2img up to the call of decode: the source
\* is encoded to timestep t_enc and decoded from t_start = t_enc
VanillaStableDiffusionSampler_sample_img2img ==
    /\ SamplerFrame
    /\ s_pc = "start" /\ ~IsKDiffusion(s_p.sampler)
    /\ s_x' = [t_enc |-> t_enc(s_p.denoising_strength, 1, s_p.steps),
               noised_at |-> t_enc(s_p.denoising_strength, 1, s_p.steps),
               turns |-> LoopTurns("img2img", s_p.sampler, s_p.denoising_strength, 1,
                                   s_p.steps),
               done |-> 0]
    /\ s_pc' = "loop"
    /\ UNCHANGED s_p

\* one denoising step of the sampling function
SamplerTurn ==
    /\ SamplerFrame
    /\ s_pc = "loop" /\ s_x.done < s_x.turns
    /\ s_x' = [s_x EXCEPT !.done = s_x.done + 1]
    /\ UNCHANGED <<s_pc, s_p>>

\* the sampling function returns the samples
SamplerReturn ==
    /\ SamplerFrame
    /\ s_pc = "loop" /\ s_x.done = s_x.turns
    /\ s_pc' = "returned"
    /\ UNCHANGED <<s_p, s_x>>

(***************************************************************************)
(* The prompt encoder: load_textual_inversion_embeddings,                  *)
(* FrozenCLIPEmbedderWithCustomWords.forward for one prompt, and           *)
(* EmbeddingsWithFixes.forward.  A text is a sequence of characters, a     *)
(* multiplier is kept as its exponent of 1.1, and max_length is scaled     *)
(* down to MaxLength.                                                      *)
(***************************************************************************)
\* tokenizer.get_vocab(): the text of every token id
get_vocab == << <<"a">>, <<"(">>, <<")">>, <<"[">>, <<"]">>, <<"(", ")">>, <<"(", "(">> >>

TokenIds == DOMAIN get_vocab

\* tokenizer.bos_token_id, tokenizer.eos_token_id and the placeholder of a custom word
id_start == 49406
id_end == 49407
Placeholder == 777

\* tokens_with_parens: the ids whose text has '(' or ')' or '[' or ']'
tokens_with_parens ==
    {ident \in TokenIds :
        \E k \in DOMAIN get_vocab[ident] : get_vocab[ident][k] \in {"(", ")", "[", "]"}}

\* the loop over the characters of a text, '[' and ')' dividing by 1.1, ']' and '('
\* multiplying by it
RECURSIVE TextMult(_)
TextMult(text) ==
    IF text = <<>> THEN 0
    ELSE (CASE Head(text) = "[" -> -1 [] Head(text) = "]" -> 1
            [] Head(text) = "(" -> 1 [] Head(text) = ")" -> -1 [] OTHER -> 0)
         + TextMult(Tail(text))

\* one step of 1.1 for a token, whatever the number of its parens
token_mults_OneStep ==
    [ident \in {k \in tokens_with_parens : TextMult(get_vocab[k]) # 0} |->
        IF TextMult(get_vocab[ident]) > 0 THEN 1 ELSE -1]

\* self.token_mults: the tokens with parens whose mult != 1.0
token_mults ==
    [ident \in {k \in tokens_with_parens : TextMult(get_vocab[k]) # 0} |->
        TextMult(get_vocab[ident])]

\* the embedding files: the name and the ids the tokenizer makes of the name
EmbeddingFiles == {[name |-> "a", ids |-> <<1>>], [name |-> "a a", ids |-> <<1, 1>>]}

\* os.listdir(dirname): none, or both files in either order
Directories ==
    {<<>>} \cup {d \in EmbeddingFiles \X EmbeddingFiles : d[1] # d[2]}

TokenSeqs == UNION {[1..len -> TokenIds] : len \in 0..MaxTokens}

EmbedderIdle ==
    /\ e_pc = "idle"
    /\ e_in = [dir |-> <<>>, tokens |-> <<>>, enable_emphasis |-> TRUE]
    /\ ids_lookup = [ident \in TokenIds |-> <<>>]
    /\ e_i = 0
    /\ mult = 0
    /\ remade_tokens = <<>>
    /\ multipliers = <<>>
    /\ fixes = <<>>
    /\ inputs_embeds = <<>>
    /\ e_exc = "none"

InitEmbedder ==
    /\ e_pc = "start"
    /\ e_in \in [dir : Directories, tokens : TokenSeqs, enable_emphasis : BOOLEAN]
    /\ ids_lookup = [ident \in TokenIds |-> <<>>]
    /\ e_i = 0
    /\ mult = 0
    /\ remade_tokens = <<>>
    /\ multipliers = <<>>
    /\ fixes = <<>>
    /\ inputs_embeds = <<>>
    /\ e_exc = "none"

EmbedderFrame == UNCHANGED <<reqVars, gridVars, cropVars, matrixVars, samplerVars, inpaintVars, lowvramVars, loaderVars>>

\* process_file for every file of the directory: (ids, name) is appended to the list
\* of ids[0]; an id without a list has the empty one here
load_textual_inversion_embeddings ==
    /\ EmbedderFrame
    /\ e_pc = "start"
    /\ ids_lookup' = [ident \in TokenIds |->
                         SelectSeq(e_in.dir, LAMBDA f : f.ids[1] = ident)]
    /\ e_pc' = "loaded"
    /\ UNCHANGED <<e_in, e_i, mult, remade_tokens, multipliers, fixes, inputs_embeds, e_exc>>

\* forward, to the head of `while i < len(tokens)`
ForwardStart ==
    /\ EmbedderFrame
    /\ e_pc = "loaded"
    /\ fixes' = <<>> /\ remade_tokens' = <<>> /\ multipliers' = <<>>
    /\ mult' = 0 /\ e_i' = 0
    /\ e_pc' = "scan"
    /\ UNCHANGED <<e_in, ids_lookup, inputs_embeds, e_exc>>

\* the first (ids, word) of possible_matches with tokens[i:i + len(ids)] == ids: its
\* index, 0 if there is none
FirstMatch(possible_matches, tokens, at) ==
    LET hits == {k \in DOMAIN possible_matches :
                    Slice(tokens, at, at + Len(possible_matches[k].ids))
                        = possible_matches[k].ids}
    IN  IF hits = {} THEN 0 ELSE CHOOSE k \in hits : \A other \in hits : k <= other

\* one turn of the while loop
ForwardTurn ==
    /\ EmbedderFrame
    /\ e_pc = "scan" /\ e_i < Len(e_in.tokens)
    /\ LET token == e_in.tokens[e_i + 1]
           possible_matches == ids_lookup[token]
           found == FirstMatch(possible_matches, e_in.tokens, e_i)
       IN  IF e_in.enable_emphasis /\ token \in DOMAIN token_mults
           THEN /\ mult' = mult + token_mults[token]
                /\ e_i' = e_i + 1
                /\ UNCHANGED <<remade_tokens, multipliers, fixes>>
           ELSE IF possible_matches = <<>> \/ found = 0
           THEN /\ remade_tokens' = Append(remade_tokens, token)
                /\ multipliers' = Append(multipliers, mult)
                /\ e_i' = e_i + 1
                /\ UNCHANGED <<mult, fixes>>
           ELSE /\ fixes' = Append(fixes, [offset |-> Len(remade_tokens),
                                           word |-> possible_matches[found].name])
                /\ remade_tokens' = Append(remade_tokens, Placeholder)
                /\ multipliers' = Append(multipliers, mult)
                /\ e_i' = e_i + (Len(possible_matches[found].ids) - 1) + 1
                /\ UNCHANGED mult
    /\ UNCHANGED <<e_pc, e_in, ids_lookup, inputs_embeds, e_exc>>

\* [fill] * count, nothing for a count <= 0
Repeat(fill, count) == [k \in 1..count |-> fill]

\* after the loop: maxlen = max_length - 2; the tokens and the multipliers are padded
\* to maxlen - 2, cut to maxlen - 2 and put between the begin and the end marker
ForwardFinish ==
    /\ EmbedderFrame
    /\ e_pc = "scan" /\ e_i >= Len(e_in.tokens)
    /\ LET maxlen == MaxLength - 2
       IN  /\ remade_tokens' =
                 <<id_start>>
                 \o Slice(remade_tokens \o Repeat(id_end, maxlen - 2 - Len(remade_tokens)),
                          0, maxlen - 2)
                 \o <<id_end>>
           /\ multipliers' =
                 <<0>>
                 \o Slice(multipliers \o Repeat(0, maxlen - 2 - Len(multipliers)),
                          0, maxlen - 2)
                 \o <<0>>
    /\ e_pc' = "built"
    /\ UNCHANGED <<e_in, ids_lookup, e_i, mult, fixes, inputs_embeds, e_exc>>

\* for offset, word in fixes: tensor[offset] = word_embeddings[word]; an offset past
\* the tensor's end raises IndexError
RECURSIVE WriteFixes(_, _)
WriteFixes(tensor, todo) ==
    IF todo = <<>> THEN [tensor |-> tensor, exc |-> "none"]
    ELSE IF Head(todo).offset >= Len(tensor) THEN [tensor |-> tensor, exc |-> "IndexError"]
    ELSE WriteFixes([tensor EXCEPT ![Head(todo).offset + 1] = <<"word", Head(todo).word>>],
                    Tail(todo))

\* EmbeddingsWithFixes.forward(input_ids): the wrapped embedding of every id, then the
\* fixes
EmbeddingsWithFixes_forward ==
    /\ EmbedderFrame
    /\ e_pc = "built"
    /\ LET wrapped == [k \in DOMAIN remade_tokens |-> <<"token", remade_tokens[k]>>]
           written == WriteFixes(wrapped, fixes)
       IN  /\ inputs_embeds' = written.tensor
           /\ e_exc' = written.exc
    /\ e_pc' = "embedded"
    /\ UNCHANGED <<e_in, ids_lookup, e_i, mult, remade_tokens, multipliers, fixes>>

(***************************************************************************)
(* Inpainting in latent space: the end of                                  *)
(* StableDiffusionProcessingImg2Img.init, the mask blend of every denoiser *)
(* invocation, and sample().  A latent is a sequence of MaxLatent values;  *)
(* what the model and the samplers compute is any value.                   *)
(***************************************************************************)
LatentValues == {0, 1}

Latents == [1..MaxLatent -> LatentValues]

\* a * m + b * nm, position by position
MaskBlend(a, m, b, nm) == [k \in 1..MaxLatent |-> a[k] * m[k] + b[k] * nm[k]]

Zeros == [k \in 1..MaxLatent |-> 0]

InpaintIdle ==
    /\ l_pc = "idle"
    /\ l_p = [inpainting_fill |-> 0, sampler |-> "none", encoded |-> Zeros, latmask |-> Zeros]
    /\ l_mask = Zeros /\ l_nmask = Zeros
    /\ init_latent = Zeros /\ denoised = Zeros /\ samples = Zeros
    /\ l_step = 0

\* the image init encodes (for a fill policy other than 1 after fill()), and a binary
\* latmask
InitInpaint ==
    /\ l_pc = "start"
    /\ l_p \in [inpainting_fill : 0..3, sampler : {"Euler", "DDIM"}, encoded : Latents,
                latmask : Latents]
    /\ l_mask = Zeros /\ l_nmask = Zeros
    /\ init_latent = Zeros /\ denoised = Zeros /\ samples = Zeros
    /\ l_step = 0

InpaintFrame ==
    UNCHANGED <<reqVars, gridVars, cropVars, matrixVars, samplerVars, embedderVars, lowvramVars, loaderVars>>

\* init: self.init_latent is the encoding; self.mask = 1.0 - latmask, self.nmask =
\* latmask; fill 2 puts noise and fill 3 zero into the masked region of init_latent
Img2ImgInit ==
    /\ InpaintFrame
    /\ l_pc = "start"
    /\ l_mask' = [k \in 1..MaxLatent |-> 1 - l_p.latmask[k]]
    /\ l_nmask' = l_p.latmask
    /\ \E noise \in (IF l_p.inpainting_fill = 2 THEN Latents ELSE {Zeros}) :
          init_latent' =
              IF l_p.inpainting_fill = 2
              THEN MaskBlend(l_p.encoded, l_mask', noise, l_nmask')
              ELSE IF l_p.inpainting_fill = 3
              THEN MaskBlend(l_p.encoded, l_mask', Zeros, Zeros)
              ELSE l_p.encoded
    /\ l_pc' = "ready"
    /\ UNCHANGED <<l_p, denoised, samples, l_step>>

\* sample_img2img up to the sampler's loop: the noised init_latent
SampleImg2Img ==
    /\ InpaintFrame
    /\ l_pc = "ready"
    /\ \E xi \in Latents : samples' = xi
    /\ l_step' = 0
    /\ l_pc' = "sampling"
    /\ UNCHANGED <<l_p, l_mask, l_nmask, init_latent, denoised>>

\* one step of the sampler.  CFGDenoiser.forward returns init_latent * mask + nmask *
\* denoised; p_sample_ddim_hook gives the DDIM step img_orig * mask + nmask * x_dec,
\* img_orig the init_latent noised to the step.  The step's result is any latent.
DenoiserStep ==
    /\ InpaintFrame
    /\ l_pc = "sampling" /\ l_step < MaxSteps
    /\ IF IsKDiffusion(l_p.sampler)
       THEN \E out \in Latents : denoised' = MaskBlend(init_latent, l_mask, out, l_nmask)
       ELSE \E img_orig \in Latents :
                denoised' = MaskBlend(img_orig, l_mask, samples, l_nmask)
    /\ \E next \in Latents : samples' = next
    /\ l_step' = l_step + 1
    /\ UNCHANGED <<l_pc, l_p, l_mask, l_nmask, init_latent>>

\* the sampler returns its samples
SamplerDone ==
    /\ InpaintFrame
    /\ l_pc = "sampling" /\ l_step = MaxSteps
    /\ l_pc' = "sampled"
    /\ UNCHANGED <<l_p, l_mask, l_nmask, init_latent, denoised, samples, l_step>>

\* samples with no blend
SampleBlend_SamplesOnly(x, latent, m, nm) == x

\* samples = samples * self.nmask + self.init_latent * self.mask
SampleBlend(x, latent, m, nm) == MaskBlend(x, nm, latent, m)

\* sample(): the blend of the samples with init_latent
Img2ImgSample ==
    /\ InpaintFrame
    /\ l_pc = "sampled"
    /\ samples' = SampleBlend(samples, init_latent, l_mask, l_nmask)
    /\ l_pc' = "returned"
    /\ UNCHANGED <<l_p, l_mask, l_nmask, init_latent, denoised, l_step>>

(***************************************************************************)
(* setup_for_low_vram: the hooks that keep one tracked module on the       *)
(* accelerator.  A module is a name; the blocks of the diffusion model are *)
(* numbered.                                                               *)
(***************************************************************************)
NoModule == <<"None", 0>>

input_blocks == {<<"input_blocks", k>> : k \in 1..NumBlocks}

output_blocks == {<<"output_blocks", k>> : k \in 1..NumBlocks}

\* the submodules given a forward_pre_hook, and first_stage_model's encode and decode
Hooked(med) ==
    {<<"transformer", 0>>, <<"first_stage_model", 0>>}
    \cup (IF med THEN {<<"model", 0>>}
          ELSE {<<"time_embed", 0>>, <<"middle_block", 0>>} \cup input_blocks
               \cup output_blocks)

\* parents.get(module, module), with parents[transformer] = cond_stage_model
parents(module) ==
    IF module = <<"transformer", 0>> THEN <<"cond_stage_model", 0>> ELSE module

\* the modules send_me_to_gpu moves
Tracked(med) == {parents(h) : h \in Hooked(med)}

LowVramIdle ==
    /\ v_pc = "off" /\ medvram = FALSE /\ v_module = NoModule
    /\ module_in_gpu = NoModule /\ on_gpu = {}

\* after setup_for_low_vram the three big modules, or the parts of the third, are in
\* the CPU
InitResidency ==
    /\ v_pc = "idle" /\ medvram \in BOOLEAN /\ v_module = NoModule
    /\ module_in_gpu = NoModule /\ on_gpu = {}

LowVramFrame ==
    UNCHANGED <<reqVars, gridVars, cropVars, matrixVars, samplerVars, embedderVars,
                inpaintVars, loaderVars>>

\* a hooked submodule is called: forward, or first_stage_model's encode or decode
HookedCall ==
    /\ LowVramFrame
    /\ v_pc = "idle"
    /\ \E h \in Hooked(medvram) : v_module' = h
    /\ v_pc' = "hook"
    /\ UNCHANGED <<medvram, module_in_gpu, on_gpu>>

\* send_me_to_gpu: module = parents.get(module, module); if module_in_gpu == module:
\* return
send_me_to_gpu ==
    /\ LowVramFrame
    /\ v_pc = "hook"
    /\ v_module' = parents(v_module)
    /\ v_pc' = IF module_in_gpu = parents(v_module) THEN "compute" ELSE "evict"
    /\ UNCHANGED <<medvram, module_in_gpu, on_gpu>>

\* the resident module is left where it is
ToCpu_Stays(resident, module) == resident

\* module_in_gpu.to(cpu)
ToCpu(resident, module) == resident \ {module}

\* if module_in_gpu is not None: module_in_gpu.to(cpu)
EvictResident ==
    /\ LowVramFrame
    /\ v_pc = "evict"
    /\ on_gpu' = IF module_in_gpu # NoModule THEN ToCpu(on_gpu, module_in_gpu) ELSE on_gpu
    /\ v_pc' = "load"
    /\ UNCHANGED <<medvram, v_module, module_in_gpu>>

\* module.to(gpu); module_in_gpu = module
LoadModule ==
    /\ LowVramFrame
    /\ v_pc = "load"
    /\ on_gpu' = on_gpu \cup {v_module}
    /\ module_in_gpu' = v_module
    /\ v_pc' = "compute"
    /\ UNCHANGED <<medvram, v_module>>

\* the submodule's computation, after the hook
ComputationDone ==
    /\ LowVramFrame
    /\ v_pc = "compute"
    /\ v_pc' = "idle"
    /\ UNCHANGED <<medvram, v_module, module_in_gpu, on_gpu>>

(***************************************************************************)
(* load_textual_inversion_embeddings, file by file, called again while the *)
(* directory changes.                                                      *)
(***************************************************************************)
\* self.dir_mtime = None
NoMtime == 0

\* the files a directory may hold: the name (the file name without its extension), the
\* ids the tokenizer makes of the name, and whether torch.load and the checks of the
\* data pass.  The tokenizer makes no id of a name of blanks.
LoaderFiles ==
    {[name |-> "a", ids |-> <<1>>, loads |-> TRUE],
     [name |-> "a a", ids |-> <<1, 1>>, loads |-> TRUE],
     [name |-> "(", ids |-> <<2>>, loads |-> FALSE],
     [name |-> " ", ids |-> <<>>, loads |-> TRUE]}

\* os.listdir(dirname): at most MaxFiles files, each once, in any order
Listings ==
    {d \in UNION {[1..len -> LoaderFiles] : len \in 0..MaxFiles} :
        \A a, b \in DOMAIN d : a # b => d[a] # d[b]}

NoLookup == [ident \in TokenIds |-> <<>>]

LoaderIdle ==
    /\ d_pc = "off" /\ listdir = <<>> /\ d_mt = 1 /\ d_k = 0
    /\ dir_mtime = NoMtime /\ word_embeddings = {} /\ d_ids_lookup = NoLookup

\* the class attributes of StableDiffusionModelHijack, and a directory
InitLoader ==
    /\ d_pc = "idle" /\ listdir \in Listings /\ d_mt = 1 /\ d_k = 0
    /\ dir_mtime = NoMtime /\ word_embeddings = {} /\ d_ids_lookup = NoLookup

LoaderFrame ==
    UNCHANGED <<reqVars, gridVars, cropVars, matrixVars, samplerVars, embedderVars,
                inpaintVars, lowvramVars>>

\* files are added to the directory or removed from it: its modification time advances
DirectoryChanges ==
    /\ LoaderFrame
    /\ d_pc = "idle" /\ d_mt < MaxMtime
    /\ \E d \in Listings : d # listdir /\ listdir' = d
    /\ d_mt' = d_mt + 1
    /\ UNCHANGED <<d_pc, d_k, dir_mtime, word_embeddings, d_ids_lookup>>

\* mt = os.path.getmtime(dirname); if self.dir_mtime is not None and mt <=
\* self.dir_mtime: return; else the tables are cleared
LoadCall ==
    /\ LoaderFrame
    /\ d_pc = "idle"
    /\ IF dir_mtime # NoMtime /\ d_mt <= dir_mtime
       THEN UNCHANGED <<d_pc, d_k, dir_mtime, word_embeddings, d_ids_lookup>>
       ELSE /\ dir_mtime' = d_mt
            /\ d_ids_lookup' = NoLookup
            /\ word_embeddings' = {}
            /\ d_k' = 0
            /\ d_pc' = "listing"
    /\ UNCHANGED <<listdir, d_mt>>

\* self.word_embeddings[name] = emb (the embedding is told by the file's ids)
Registered(table, file) ==
    {e \in table : e.name # file.name} \cup {[name |-> file.name, emb |-> file.ids]}

\* for fn in os.listdir(dirname): try: process_file(...) except Exception: continue.
\* torch.load or the assert raises for a file that does not load; ids[0] raises for a
\* name without ids
process_file ==
    /\ LoaderFrame
    /\ d_pc = "listing" /\ d_k < Len(listdir)
    /\ LET file == listdir[d_k + 1]
       IN  IF ~file.loads
           THEN UNCHANGED <<word_embeddings, d_ids_lookup>>
           ELSE /\ word_embeddings' = Registered(word_embeddings, file)
                /\ d_ids_lookup' =
                      IF file.ids = <<>> THEN d_ids_lookup
                      ELSE [d_ids_lookup EXCEPT ![file.ids[1]] =
                               Append(@, [ids |-> file.ids, name |-> file.name])]
    /\ d_k' = d_k + 1
    /\ UNCHANGED <<d_pc, listdir, d_mt, dir_mtime>>

\* the end of the listing
LoadReturn ==
    /\ LoaderFrame
    /\ d_pc = "listing" /\ d_k = Len(listdir)
    /\ d_pc' = "idle"
    /\ UNCHANGED <<listdir, d_mt, d_k, dir_mtime, word_embeddings, d_ids_lookup>>
(***************************************************************************)
(* The specifications.  The request machine: one handler call at a time    *)
(* (Spec) and concurrent calls (SpecQueue).                                *)
(***************************************************************************)
InitRequests ==
    /\ queue_lock = FALSE
    /\ interrupted = FALSE
    /\ pc = [t \in Threads |-> "idle"]
    /\ req = [t \in Threads |-> NoRequest]
    /\ p = [t \in Threads |-> NoP]
    /\ n = [t \in Threads |-> 0]
    /\ step = [t \in Threads |-> 0]
    /\ output_images = [t \in Threads |-> <<>>]
    /\ i = [t \in Threads |-> 0]
    /\ history = [t \in Threads |-> <<>>]
    /\ exc = [t \in Threads |-> "none"]
    /\ res = [t \in Threads |-> NoRes]
    /\ called = [t \in Threads |-> FALSE]
    /\ hit = [t \in Threads |-> FALSE]
    /\ completed = [t \in Threads |-> <<>>]
    /\ intOwners = {}
    /\ runs = [t \in Threads |-> <<>>]
    /\ saved = [t \in Threads |-> <<>>]
    /\ history_log = <<>>

Init ==
    /\ InitRequests
    /\ TilerIdle /\ CropIdle /\ MatrixIdle /\ SamplerIdle /\ EmbedderIdle /\ InpaintIdle /\ LowVramIdle /\ LoaderIdle
    /\ opts \in OptionSets

Next ==
    \/ Interrupt
    \/ erase_history
    \/ Call(1, AllRequests)
    \/ Acquire(1)
    \/ do_generate(1)
    \/ run_postprocessing(1)
    \/ process_images(1)
    \/ BatchHead(1)
    \/ SampleStep(1)
    \/ BatchFinish(1)
    \/ GridStage(1)
    \/ Generated(1)
    \/ LoopbackHead(1)
    \/ LoopbackNext(1)
    \/ UpscaleSplit(1)
    \/ UpscaleHead(1)
    \/ UpscaleNext(1)
    \/ Release(1)
    \/ WrapReturn(1)
    \/ Respond(1)

Spec == Init /\ [][Next]_vars

InitQueue ==
    /\ InitRequests
    /\ opts = DefaultOpts
    /\ TilerIdle /\ CropIdle /\ MatrixIdle /\ SamplerIdle /\ EmbedderIdle /\ InpaintIdle /\ LowVramIdle /\ LoaderIdle

NextQueue ==
    \/ Interrupt
    \/ \E t \in Threads :
        \/ Call(t, QueueRequests)
        \/ Acquire(t)
        \/ do_generate(t)
        \/ run_postprocessing(t)
        \/ process_images(t)
        \/ BatchHead(t)
        \/ SampleStep(t)
        \/ BatchFinish(t)
        \/ GridStage(t)
        \/ Generated(t)
        \/ Release(t)
        \/ WrapReturn(t)
        \/ Respond(t)

SpecQueue == InitQueue /\ [][NextQueue]_vars


RequestsIdle ==
    /\ InitRequests
    /\ opts = DefaultOpts

\* the grid tiler
InitGrid == InitTiler /\ RequestsIdle /\ CropIdle /\ MatrixIdle /\ SamplerIdle /\ EmbedderIdle /\ InpaintIdle /\ LowVramIdle /\ LoaderIdle

NextGrid ==
    \/ SplitGrid
    \/ CombineGrid

SpecGrid == InitGrid /\ [][NextGrid]_vars

\* get_crop_region
InitCropRegion == InitCrop /\ RequestsIdle /\ TilerIdle /\ MatrixIdle /\ SamplerIdle /\ EmbedderIdle /\ InpaintIdle /\ LowVramIdle /\ LoaderIdle

NextCropRegion == GetCropRegion

SpecCrop == InitCropRegion /\ [][NextCropRegion]_vars

\* the expansion of process_images
InitExpansion == InitMatrix /\ RequestsIdle /\ TilerIdle /\ CropIdle /\ SamplerIdle /\ EmbedderIdle /\ InpaintIdle /\ LowVramIdle /\ LoaderIdle

NextExpansion == Expand \/ PromptMatrixGrid

SpecMatrix == InitExpansion /\ [][NextExpansion]_vars


\* sample_img2img of the two sampler classes
InitSampling == InitSampler /\ RequestsIdle /\ TilerIdle /\ CropIdle /\ MatrixIdle /\ EmbedderIdle /\ InpaintIdle /\ LowVramIdle /\ LoaderIdle

NextSampling ==
    \/ KDiffusionSampler_sample_img2img
    \/ VanillaStableDiffusionSampler_sample_img2img
    \/ SamplerTurn
    \/ SamplerReturn

SpecSampler == InitSampling /\ [][NextSampling]_vars

\* the prompt encoder with the custom embeddings
InitEncoding == InitEmbedder /\ RequestsIdle /\ TilerIdle /\ CropIdle /\ MatrixIdle /\ SamplerIdle /\ InpaintIdle /\ LowVramIdle /\ LoaderIdle

NextEncoding ==
    \/ load_textual_inversion_embeddings
    \/ ForwardStart
    \/ ForwardTurn
    \/ ForwardFinish
    \/ EmbeddingsWithFixes_forward

SpecEmbedder == InitEncoding /\ [][NextEncoding]_vars

\* StableDiffusionProcessingImg2Img.init and sample with a latent mask
InitInpainting ==
    InitInpaint /\ RequestsIdle /\ TilerIdle /\ CropIdle /\ MatrixIdle /\ SamplerIdle
    /\ EmbedderIdle /\ LowVramIdle /\ LoaderIdle

NextInpainting ==
    \/ Img2ImgInit
    \/ SampleImg2Img
    \/ DenoiserStep
    \/ SamplerDone
    \/ Img2ImgSample

SpecInpaint == InitInpainting /\ [][NextInpainting]_vars

\* the hooked submodules called in any order after setup_for_low_vram
InitLowVram ==
    InitResidency /\ RequestsIdle /\ TilerIdle /\ CropIdle /\ MatrixIdle /\ SamplerIdle
    /\ EmbedderIdle /\ InpaintIdle /\ LoaderIdle

NextLowVram ==
    \/ HookedCall
    \/ send_me_to_gpu
    \/ EvictResident
    \/ LoadModule
    \/ ComputationDone

SpecLowVram == InitLowVram /\ [][NextLowVram]_vars

\* load_textual_inversion_embeddings called again and again while the directory changes
InitLoading ==
    InitLoader /\ RequestsIdle /\ TilerIdle /\ CropIdle /\ MatrixIdle /\ SamplerIdle
    /\ EmbedderIdle /\ InpaintIdle /\ LowVramIdle

NextLoading ==
    \/ DirectoryChanges
    \/ LoadCall
    \/ process_file
    \/ LoadReturn

SpecLoader == InitLoading /\ [][NextLoading]_vars
(***************************************************************************)
(* Claims about the request machine.                                       *)
(***************************************************************************)
\* C1: at most one call executes the body wrapped by wrap_gradio_gpu_call, and
\* queue_lock is held exactly when some call executes it (free again after a raise).
C1_OneBodyAndLockHeldIffInBody ==
    /\ Cardinality({t \in Threads : InBody(t)}) <= 1
    /\ queue_lock <=> \E t \in Threads : InBody(t)

\* a call whose body raised has left the with block and another call is in the body
C1_Witness ==
    \E t1, t2 \in Threads :
        /\ t1 # t2
        /\ pc[t1] = "returned" /\ exc[t1] # "none"
        /\ InBody(t2) /\ queue_lock

\* C2: an exception raised in a wrapped handler is never propagated: the wrapper
\* returns a tuple whose last element is the error html naming the exception.
C2_ExceptionBecomesErrorHtml ==
    \A t \in Threads :
        pc[t] = "done" /\ exc[t] # "none" =>
            /\ res[t].kind = "error"
            /\ Len(res[t].html) >= 3
            /\ res[t].html[1] = "<div class='error'>"
            /\ res[t].html[2] = exc[t]

\* the loopback driver's IndexError has been turned into the error html
C2_Witness ==
    \E t \in Threads : pc[t] = "done" /\ exc[t] = "IndexError" /\ res[t].kind = "error"

\* the request passes for well formed: counts positive, sizes multiples of 64
WellFormed(r) ==
    /\ r.batch_count > 0
    /\ r.batch_size > 0
    /\ r.image_width % 64 = 0
    /\ r.image_height % 64 = 0

\* C3: in every mode do_generate accepts, a request with a count <= 0 or a size
\* that is no multiple of 64 is rejected before txt2img / img2img is called.
C3_MalformedRejectedBeforeModel ==
    \A t \in Threads :
        req[t].mode \in {"Text-to-Image", "Image-to-Image", "Inpainting"} /\ called[t]
            => WellFormed(req[t])

\* the images a returned tuple carries, the tiles of a combined image included
ReturnedImages(t) ==
    {res[t].images[k] : k \in DOMAIN res[t].images}
    \cup UNION {{res[t].images[k].tiles[j] : j \in DOMAIN res[t].images[k].tiles} :
                    k \in DOMAIN res[t].images}

\* C4: a request during which the interrupt flag was set finishes without an
\* error and returns the images of the batches or rounds completed, with the
\* info block.  Stated for well formed requests with their input image, under the
\* default options.
C4_InterruptedReturnsCompleted ==
    \A t \in Threads :
        /\ pc[t] = "done" /\ hit[t]
        /\ req[t].handler = "do_generate" /\ WellFormed(req[t])
        /\ req[t].mode \in {"Text-to-Image", "Image-to-Image", "Inpainting"}
        /\ req[t].mode # "Text-to-Image" => req[t].has_image
        /\ opts = DefaultOpts
        => /\ exc[t] = "none"
           /\ res[t].kind = "ok"
           /\ \A k \in DOMAIN completed[t] : completed[t][k] \in ReturnedImages(t)
           /\ res[t].html[1] = "prompt-info"

\* C5: an interrupt issued while a request generates stops only that request: a
\* request inside the lock sees the flag set only if the interrupt was issued
\* while it was inside, and such an interrupt is not cleared under it.
C5_InterruptScopedToItsRequest ==
    \A t \in Threads :
        InBody(t) =>
            /\ t \in intOwners => interrupted
            /\ interrupted /\ intOwners # {} => t \in intOwners


\* a loopback request the validation passes, with its input image
IsLoopback(r) ==
    /\ r.handler = "do_generate" /\ r.mode = "Image-to-Image"
    /\ r.loopback /\ ~r.upscale /\ r.has_image
    /\ WellFormed(r)

\* C11: in loopback mode the seed used by round k equals round 0's resolved seed + k
\* (the requested seed when it is not -1), and the strength used by round k equals
\* max(initial * 0.95^k, 0.1).
C11_LoopbackSeedChain ==
    \A t \in Threads :
        IsLoopback(req[t]) =>
            /\ runs[t] # <<>> /\ req[t].seed # -1 => runs[t][1].seed = req[t].seed
            /\ \A k \in 0..(Len(runs[t]) - 1) :
                /\ runs[t][k + 1].seed = runs[t][1].seed + k
                /\ runs[t][k + 1].denoising_strength =
                       Max(req[t].denoise * Pow(19, k) * Pow(20, MaxBatch - k), StrengthFloor)

\* a text-to-image request with an explicit seed, one batch of one image
IsEndToEnd(r) ==
    /\ r.handler = "do_generate" /\ r.mode = "Text-to-Image"
    /\ r.seed # -1 /\ r.batch_size = 1 /\ r.batch_count = 1
    /\ WellFormed(r)

\* C12: under the default options a text-to-image request with an explicit seed, batch
\* size 1 and one iteration, whose batch was generated, returns exactly one image,
\* metadata with the requested seed, width, height and steps, and an info block whose
\* first line is the prompt; the result is a function of the request.
C12_EndToEndTxt2Img ==
    \A t \in Threads :
        /\ pc[t] = "done" /\ IsEndToEnd(req[t])
        /\ Len(completed[t]) = 1
        /\ opts = DefaultOpts
        => /\ res[t].kind = "ok"
           /\ Len(res[t].images) = 1
           /\ res[t].js = [seed |-> req[t].seed, width |-> req[t].image_width,
                           height |-> req[t].image_height, steps |-> MaxSteps]
           /\ res[t].html[1] = "prompt-info" /\ res[t].html[2] = req[t].prompt

\* the info blocks of the generations of the call
InfoBlocks(t) == {runs[t][k].info : k \in DOMAIN runs[t]}

\* C13: every image save_image writes during a request is saved with the info block
\* of a generation of that request, and the result returned carries that info block.
C13_InfoWithEverySavedImage ==
    \A t \in Threads :
        /\ \A k \in DOMAIN saved[t] : saved[t][k].info \in InfoBlocks(t)
        /\ pc[t] = "done" /\ res[t].kind = "ok" /\ req[t].handler = "do_generate"
              => \E info \in InfoBlocks(t) : SubSeq(res[t].html, 1, 6) = InfoHtml(info)

\* the call is in process_images' batch loop, or just past it
InLoop(t) == pc[t] \in {"batch", "sample", "decode", "grid"}

\* what C14 says of the process_images call of handler t
OrdinaryExpansion(t) ==
    LET q == p[t]
        resolved_seed == LastRun(t).seed
    IN  /\ Len(q.all_prompts) = q.batch_size * q.n_iter
        /\ Len(q.all_seeds) = Len(q.all_prompts)
        /\ \A j \in DOMAIN q.all_prompts :
              /\ q.all_prompts[j] = req[t].prompt
              /\ q.all_seeds[j] = resolved_seed + (j - 1)
        /\ q.seed # -1 => resolved_seed = q.seed
        /\ Len(output_images[t]) = n[t] * q.batch_size
        /\ \A j \in DOMAIN output_images[t] : output_images[t][j].seed = q.all_seeds[j]
        /\ pc[t] = "grid" /\ n[t] = q.n_iter => Len(output_images[t]) = Len(q.all_prompts)

\* C14: process_images builds batch_size * n_iter work items with the request's prompt,
\* item j with seed resolved_seed + j; batch n consumes items n * batch_size to
\* (n + 1) * batch_size - 1; uninterrupted, the result holds one image per item, in order.
C14_OrdinaryExpansion ==
    \A t \in Threads : InLoop(t) => OrdinaryExpansion(t)

\* C14 for the calls whose p.init() leaves p.batch_size as it was
C14_OrdinaryExpansionKeptBatchSize ==
    \A t \in Threads :
        InLoop(t) /\ LastRun(t).batch_size = p[t].batch_size => OrdinaryExpansion(t)

\* two batches of two images have been generated from the requested seed
C14_Witness ==
    \E t \in Threads :
        /\ pc[t] = "grid" /\ n[t] = 2 /\ p[t].batch_size = 2
        /\ LastRun(t).batch_size = 2 /\ LastRun(t).seed = ExplicitSeed
        /\ Len(output_images[t]) = 4 /\ output_images[t][4].seed = ExplicitSeed + 3

\* C15: with the history enabled, a text-to-image request whose generation completed
\* appends exactly one entry to the history log (at most three thumbnails, the grid
\* skipped, and the parameters html) and goes on to return its result without an
\* exception; no other step of a request appends to the log.
C15_HistoryAppendedAndReturned ==
    [][/\ \A t \in Threads :
             pc[t] = "generated" /\ pc'[t] # "generated"
                /\ req[t].mode = "Text-to-Image" /\ opts.enable_history
             => /\ exc'[t] = "none"
                /\ Len(history_log') = Len(history_log) + 1
                /\ LET entry == history_log'[Len(history_log')]
                   IN  /\ Len(entry.images) <= 3
                       /\ \A k \in DOMAIN entry.images : entry.images[k].kind # "grid"
                       /\ entry.description = InfoHtml(runs[t][1].info)
       /\ (\A t \in Threads : pc[t] # "generated") /\ Len(history_log') > Len(history_log)
             => FALSE]_vars

\* C19: for every sampler, the interrupt flag is checked before every batch and before
\* every sampling step: once it is set, no further sampling step and no further batch
\* starts in the request.
C19_InterruptPolledEveryStep ==
    [][\A t \in Threads :
          interrupted =>
              /\ ~(pc[t] = "sample" /\ step'[t] = step[t] + 1)
              /\ ~(pc[t] = "batch" /\ pc'[t] = "sample")]_vars

\* an SD-upscale request the validation passes, with its input image
IsUpscale(r) ==
    /\ r.handler = "do_generate" /\ r.mode = "Image-to-Image" /\ r.upscale /\ r.has_image
    /\ WellFormed(r)

\* C23: an SD-upscale run that was not interrupted calls process_images
\* ceil(T / B) times for T tiles and batch size B, and afterwards the tile at position k
\* of the grid is the image regenerated from original tile k: none is left out, blank
\* or another tile's result.
C23_EveryTileRegenerated ==
    \A t \in Threads :
        pc[t] = "exit" /\ IsUpscale(req[t]) /\ ~hit[t] /\ ~interrupted
        => /\ exc[t] = "none"
           /\ Len(runs[t]) = Ceil(UpscaleTiles(req[t]), req[t].batch_size)
           /\ Len(output_images[t]) = 1
           /\ Len(output_images[t][1].tiles) = UpscaleTiles(req[t])
           /\ \A k \in 1..UpscaleTiles(req[t]) :
                 /\ output_images[t][1].tiles[k].kind = "sample"
                 /\ output_images[t][1].tiles[k].src = k

\* three tiles in batches of two: two calls, the third tile from the second call
C23_Witness ==
    /\ pc[1] = "exit" /\ IsUpscale(req[1]) /\ ~hit[1] /\ ~interrupted
    /\ UpscaleTiles(req[1]) = 3 /\ req[1].batch_size = 2
    /\ Len(runs[1]) = 2
    /\ Len(history[1]) = 4
    /\ output_images[1][1].tiles[3].src = 3

\* C29: in an SD-upscale run with an explicit seed, whatever the numbers of tiles and of
\* images per batch, no two tiles of the combined image were generated from the same
\* seed.
C29_UpscaleSeedsDistinct ==
    \A t \in Threads :
        /\ pc[t] = "exit" /\ IsUpscale(req[t]) /\ req[t].seed # -1
        /\ exc[t] = "none" /\ Len(output_images[t]) = 1
        => \A j, k \in DOMAIN output_images[t][1].tiles :
               /\ j # k
               /\ output_images[t][1].tiles[j].kind = "sample"
               /\ output_images[t][1].tiles[k].kind = "sample"
               => output_images[t][1].tiles[j].seed # output_images[t][1].tiles[k].seed

\* C30: for every sampler index the interface offers, an index into samplers, used in
\* an image-to-image or inpainting request, init constructs a sampler, and it is the one
\* whose name the result and the info text report: samplers_for_img2img[index] exists
\* and has the name of samplers[index].
C30_Img2ImgSamplerIsTheOneReported ==
    \A t \in Threads :
        /\ InBody(t) /\ called[t] /\ p[t].kind = "img2img"
        /\ req[t].mode \in {"Image-to-Image", "Inpainting"}
        /\ req[t].sampler_index + 1 \in DOMAIN samplers
        => /\ req[t].sampler_index + 1 \in DOMAIN samplers_for_img2img
           /\ p[t].sampler = samplers_for_img2img[req[t].sampler_index + 1]
           /\ p[t].sampler = samplers[req[t].sampler_index + 1]
(***************************************************************************)
(* Claims about the grid tiler.                                            *)
(***************************************************************************)
\* c is the least integer with c * b >= a
IsCeilOf(c, a, b) == c * b >= a /\ (c - 1) * b < a

GridRows == Len(grid.tiles)

GridCols == Len(grid.tiles[1][3])

TileY(row) == grid.tiles[row][1]

TileX(row, col) == grid.tiles[row][3][col][1]

\* C6: combine_grid(split_grid(image, tile_w, tile_h, overlap)) with the tiles left
\* as they are has the image's dimensions and every pixel of the image.
C6_GridRoundTrip ==
    g_pc = "combined" =>
        /\ combined_image.width = g_image.width
        /\ combined_image.height = g_image.height
        /\ \A q \in Pixels(g_image.width, g_image.height) : combined_image.px[q] = g_image.px[q]

\* a grid of two rows and three columns with blended seams has been combined
C6_Witness ==
    /\ g_pc = "combined"
    /\ g_args.overlap >= 1
    /\ GridRows >= 2 /\ GridCols >= 3
    /\ combined_image = g_image

\* C7: the rows and columns number ceil((dim - overlap) / (tileSize - overlap)); the
\* tile at index k starts at min(k * (tileSize - overlap), dim - tileSize); the last
\* tile ends at the image's edge; every tile is tile_w x tile_h pixels of the image.
C7_SplitGridGeometry ==
    g_pc = "split" =>
        LET w == g_image.width
            h == g_image.height
            tw == g_args.tile_w
            th == g_args.tile_h
            ov == g_args.overlap
        IN  /\ IsCeilOf(GridRows, h - ov, th - ov)
            /\ \A row \in 1..GridRows :
                /\ Len(grid.tiles[row][3]) = GridCols
                /\ IsCeilOf(GridCols, w - ov, tw - ov)
                /\ TileY(row) = Min((row - 1) * (th - ov), h - th)
                /\ grid.tiles[row][2] = th
                /\ \A col \in 1..GridCols :
                    LET x == TileX(row, col)
                        y == TileY(row)
                        tile == grid.tiles[row][3][col][3]
                    IN  /\ x = Min((col - 1) * (tw - ov), w - tw)
                        /\ grid.tiles[row][3][col][2] = tw
                        /\ 0 <= x /\ x + tw <= w /\ 0 <= y /\ y + th <= h
                        /\ tile.width = tw /\ tile.height = th
                        /\ \A q \in Pixels(tw, th) : tile.px[q] = g_image.px[<<x + q[1], y + q[2]>>]
            /\ TileY(GridRows) + th = h
            /\ TileX(1, GridCols) + tw = w

\* an image split into three columns, the last pulled back to the right edge
C7_Witness ==
    /\ g_pc = "split"
    /\ GridCols >= 3
    /\ (GridCols - 1) * (g_args.tile_w - g_args.overlap) + g_args.tile_w > g_image.width
    /\ TileX(1, GridCols) + g_args.tile_w = g_image.width

\* C8: the tiles cover every pixel; adjacent tiles share at least `overlap` columns
\* or rows, and only the last column or row may share more.
C8_GridCoverage ==
    g_pc = "split" =>
        LET tw == g_args.tile_w
            th == g_args.tile_h
            ov == g_args.overlap
        IN  /\ \A q \in Pixels(g_image.width, g_image.height) :
                  \E row \in 1..GridRows, col \in 1..GridCols :
                      /\ TileX(row, col) <= q[1] /\ q[1] < TileX(row, col) + tw
                      /\ TileY(row) <= q[2] /\ q[2] < TileY(row) + th
            /\ \A col \in 1..(GridCols - 1) :
                  LET shared == TileX(1, col) + tw - TileX(1, col + 1)
                  IN  shared >= ov /\ (col + 1 < GridCols => shared = ov)
            /\ \A row \in 1..(GridRows - 1) :
                  LET shared == TileY(row) + th - TileY(row + 1)
                  IN  shared >= ov /\ (row + 1 < GridRows => shared = ov)

\* three columns with a positive overlap, the last sharing more than the overlap
C8_Witness ==
    /\ g_pc = "split"
    /\ g_args.overlap >= 1
    /\ GridCols >= 3
    /\ TileX(1, GridCols - 1) + g_args.tile_w - TileX(1, GridCols) > g_args.overlap

(***************************************************************************)
(* Claims about get_crop_region.                                           *)
(***************************************************************************)
NonZero(mask) == {q \in DOMAIN mask.px : mask.px[q] # 0}

MinOf(S) == CHOOSE x \in S : \A y \in S : x <= y

MaxOf(S) == CHOOSE x \in S : \A y \in S : x >= y

\* the tightest box (left, top, right, bottom) around the non-zero values
TightBox(mask) ==
    <<MinOf({q[1] : q \in NonZero(mask)}), MinOf({q[2] : q \in NonZero(mask)}),
      MaxOf({q[1] : q \in NonZero(mask)}) + 1, MaxOf({q[2] : q \in NonZero(mask)}) + 1>>

BoxContains(outer, inner) ==
    /\ outer[1] <= inner[1] /\ outer[2] <= inner[2]
    /\ outer[3] >= inner[3] /\ outer[4] >= inner[4]

\* C9: for a mask with a non-zero value, pad 0 gives the tightest box; pad >= 0
\* gives it grown by pad on each side and clamped to the image; a larger pad gives
\* a box that contains the box of a smaller one.
C9_CropRegionTightPaddedMonotone ==
    c_pc = "cropped" /\ NonZero(c_mask) # {} =>
        LET tight == TightBox(c_mask)
        IN  /\ get_crop_region(c_mask, 0) = tight
            /\ crop_region = <<Max(tight[1] - c_pad, 0), Max(tight[2] - c_pad, 0),
                               Min(tight[3] + c_pad, c_mask.width),
                               Min(tight[4] + c_pad, c_mask.height)>>
            /\ \A pad1, pad2 \in 0..MaxPad :
                  pad1 <= pad2 =>
                      BoxContains(get_crop_region(c_mask, pad2), get_crop_region(c_mask, pad1))

\* a padded box clamped at the right edge and not at the left one
C9_Witness ==
    /\ c_pc = "cropped" /\ NonZero(c_mask) # {}
    /\ c_pad >= 1
    /\ TightBox(c_mask)[3] + c_pad > c_mask.width
    /\ TightBox(c_mask)[1] - c_pad > 0
    /\ crop_region[3] = c_mask.width

\* C28: for every mask, one without a non-zero pixel included, get_crop_region returns a
\* box with 0 <= left <= right <= w and 0 <= top <= bottom <= h, so that paste_to has a
\* width and a height that are not negative and lies inside the image.
C28_CropRegionWellFormed ==
    c_pc = "cropped" =>
        /\ 0 <= crop_region[1] /\ crop_region[1] <= crop_region[3]
        /\ crop_region[3] <= c_mask.width
        /\ 0 <= crop_region[2] /\ crop_region[2] <= crop_region[4]
        /\ crop_region[4] <= c_mask.height

(***************************************************************************)
(* Claims about the expansion.                                             *)
(***************************************************************************)
\* the number of pipe-delimited parts of a prompt
PartCount(str) == 1 + Cardinality({k \in DOMAIN str : str[k] = "|"})

HasBit(num, k) == (num \div Pow2(k)) % 2 = 1

\* the number of bits set in num below position k
BitsBelow(num, k) == Cardinality({j \in 0..(k - 1) : HasBit(num, j)})

\* C10: a prompt of k pipe-delimited parts is expanded into 2^(k-1) prompts, all with
\* the resolved seed; optional clause c is in expansion num iff bit c of num is set;
\* the first part is in every expansion; n_iter = ceil(2^(k-1) / batch_size).
C10_PromptMatrixExpansion ==
    m_pc = "expanded" /\ m_p.prompt_matrix =>
        LET k == PartCount(m_p.prompt)
            parts == Split(m_p.prompt)
            first == IF m_opts.prompt_matrix_add_to_start THEN 0 ELSE 1
        IN  /\ Len(parts) = k
            /\ Len(m_out.all_prompts) = Pow2(k - 1)
            /\ Len(m_out.all_seeds) = Pow2(k - 1)
            /\ m_p.seed # -1 => m_out.seed = m_p.seed
            /\ \A c \in DOMAIN m_out.all_seeds : m_out.all_seeds[c] = m_out.seed
            /\ \A num \in 0..(Pow2(k - 1) - 1) :
                  LET sel == m_out.selected[num + 1]
                  IN  /\ Len(sel) = 1 + BitsBelow(num, k - 1)
                      /\ sel[IF first = 1 THEN 1 ELSE Len(sel)] = parts[1]
                      /\ \A c \in 0..(k - 2) :
                            HasBit(num, c) =>
                                sel[first + BitsBelow(num, c) + 1] = StripClause(parts[c + 2])
                      /\ m_out.all_prompts[num + 1] = Join(sel)
            /\ IsCeilOf(m_out.n_iter, Pow2(k - 1), m_p.batch_size)
            /\ m_out.n_iter * m_p.batch_size >= Len(m_out.all_prompts)

\* four parts, a random seed, eight prompts in batches of two
C10_Witness ==
    /\ m_pc = "expanded" /\ m_p.prompt_matrix
    /\ PartCount(m_p.prompt) = 4
    /\ m_p.seed = -1
    /\ m_p.batch_size = 2
    /\ Len(m_out.all_prompts) = 8 /\ m_out.n_iter = 4

\* C27: the grid of a prompt matrix of k parts has 2^ceil((k-1)/2) columns and
\* 2^floor((k-1)/2) rows, as many as draw_prompt_matrix builds groups of horizontal and
\* of vertical annotations, and the image at column c, row r was generated from exactly
\* the optional clauses the annotations of column c and of row r mark as active.
C27_MatrixGridMatchesAnnotations ==
    m_pc = "grid" /\ m_grid.made =>
        LET k == PartCount(m_p.prompt)
            parts == Split(m_p.prompt)
            half == Ceil(k - 1, 2)
        IN  /\ m_grid.cols = Pow2(half)
            /\ m_grid.rows = Pow2((k - 1) \div 2)
            /\ Len(m_grid.hor_texts) = m_grid.cols
            /\ Len(m_grid.ver_texts) = m_grid.rows
            /\ m_grid.annotated
            /\ {m_grid.cells[num] : num \in DOMAIN m_grid.cells}
                  = (0..(m_grid.cols - 1)) \X (0..(m_grid.rows - 1))
            /\ \A num \in 0..(Len(m_grid.cells) - 1) :
                  LET col == m_grid.cells[num + 1][1]
                      row == m_grid.cells[num + 1][2]
                  IN  \A c \in 0..(k - 2) :
                          LET note == IF c < half THEN m_grid.hor_texts[col + 1][c + 1]
                                      ELSE m_grid.ver_texts[row + 1][c - half + 1]
                          IN  /\ note.text = parts[c + 2]
                              /\ note.is_active <=> HasBit(num, c)

\* four parts: four columns and two rows, the image of the third clause alone at the
\* start of the second row
C27_Witness ==
    /\ m_pc = "grid" /\ m_grid.made
    /\ PartCount(m_p.prompt) = 4
    /\ m_grid.cols = 4 /\ m_grid.rows = 2
    /\ m_grid.cells[5] = <<0, 1>>
    /\ m_grid.ver_texts[2][1].is_active


(***************************************************************************)
(* The tiler without overlap.                                              *)
(***************************************************************************)
\* the tiles of the grid that hold pixel q of the image, as <<row, col>>
TilesAt(q) ==
    {rc \in (1..GridRows) \X (1..GridCols) :
        /\ TileX(rc[1], rc[2]) <= q[1] /\ q[1] < TileX(rc[1], rc[2]) + grid.tile_w
        /\ TileY(rc[1]) <= q[2] /\ q[2] < TileY(rc[1]) + grid.tile_h}

\* the last of them in the order of the loops
LastTileAt(q) ==
    CHOOSE rc \in TilesAt(q) :
        \A other \in TilesAt(q) :
            other[1] < rc[1] \/ (other[1] = rc[1] /\ other[2] <= rc[2])

\* C26: with overlap = 0 and tiles no larger than the image, split_grid followed by
\* combine_grid completes, the two masks having no pixel, so that nothing is blended, and
\* every pixel of the result is the pixel of the last tile pasted over it at the tile's
\* offset.
C26_ZeroOverlapDirectPaste ==
    g_pc = "combined" /\ g_args.overlap = 0 =>
        /\ DOMAIN MaskW(grid).px = {} /\ DOMAIN MaskH(grid).px = {}
        /\ combined_image.width = g_image.width /\ combined_image.height = g_image.height
        /\ \A q \in Pixels(g_image.width, g_image.height) :
              /\ TilesAt(q) # {}
              /\ LET rc == LastTileAt(q)
                     tile == grid.tiles[rc[1]][3][rc[2]][3]
                 IN  combined_image.px[q]
                        = tile.px[<<q[1] - TileX(rc[1], rc[2]), q[2] - TileY(rc[1])>>]

\* two rows and three columns of tiles without overlap, the last column pulled back
\* over the one before it
C26_Witness ==
    /\ g_pc = "combined" /\ g_args.overlap = 0
    /\ GridRows >= 2 /\ GridCols >= 3
    /\ TileX(1, GridCols) < TileX(1, GridCols - 1) + g_args.tile_w
    /\ combined_image = g_image

(***************************************************************************)
(* Claims about sample_img2img, checked under SpecSampler.                 *)
(***************************************************************************)
\* k = floor(min(strength, 0.999) * steps), the strength in hundredths
IsTEnc(k, strength, steps) ==
    LET capped == Min(strength * 10, 999)
    IN  k * 1000 <= capped * steps /\ capped * steps < (k + 1) * 1000

\* C16: for every sampler, step count >= 1 and strength in [0, 1], sample_img2img
\* computes t_enc = floor(min(strength, 0.999) * steps), injects the noise at that
\* step and then executes exactly steps - t_enc denoising steps.
C16_RemainingSteps ==
    s_pc = "returned" =>
        /\ IsTEnc(s_x.t_enc, s_p.denoising_strength, s_p.steps)
        /\ s_x.done = s_p.steps - s_x.t_enc

\* C16 as the code has it: DDIM executes t_enc denoising steps from timestep t_enc,
\* a k-diffusion sampler t_enc + 1 steps from the noise level t_enc + 1 of the schedule
C16_StepsFromTEnc ==
    s_pc = "returned" =>
        /\ IsTEnc(s_x.t_enc, s_p.denoising_strength, s_p.steps)
        /\ 0 <= s_x.t_enc /\ s_x.t_enc < s_p.steps
        /\ IF IsKDiffusion(s_p.sampler)
           THEN s_x.noised_at = s_x.t_enc + 1 /\ s_x.done = s_x.t_enc + 1
           ELSE s_x.noised_at = s_x.t_enc /\ s_x.done = s_x.t_enc

\* Euler at strength 0.75 and four steps has run its four turns
C16_Witness ==
    /\ s_pc = "returned"
    /\ s_p = [sampler |-> "Euler", steps |-> 4, denoising_strength |-> 75]
    /\ s_x.t_enc = 3 /\ s_x.noised_at = 4 /\ s_x.done = 4

(***************************************************************************)
(* Claims about the prompt encoder, checked under SpecEmbedder.            *)
(***************************************************************************)
\* the number of times character c stands in a text
CountOf(text, c) == Cardinality({k \in DOMAIN text : text[k] = c})

\* P - B of a text: '(' minus ')', less '[' minus ']'
ParenWeight(text) ==
    (CountOf(text, "(") - CountOf(text, ")")) - (CountOf(text, "[") - CountOf(text, "]"))

\* a token is a paren/bracket marker: its text holds a paren or a bracket
IsMarker(token) ==
    \E c \in {"(", ")", "[", "]"} : CountOf(get_vocab[token], c) > 0

\* P - B over the marker tokens among the first count tokens
RECURSIVE WeightBefore(_, _)
WeightBefore(tokens, count) ==
    IF count = 0 THEN 0
    ELSE WeightBefore(tokens, count - 1) + ParenWeight(get_vocab[tokens[count]])

\* a turn of forward's loop is taken
LoopTurn == e_pc = "scan" /\ e_i' # e_i

\* the turn emits one token, with the multiplier 1.1^weight
EmitsWith(weight) ==
    /\ Len(remade_tokens') = Len(remade_tokens) + 1
    /\ Len(multipliers') = Len(multipliers) + 1
    /\ multipliers'[Len(multipliers')] = weight

\* C17: with emphasis enabled, a marker token is never emitted, and every other token
\* is emitted with multiplier 1.1^(P - B) of the marker tokens before it; with emphasis
\* disabled every token is emitted with multiplier 1.0 and none is consumed.
C17_EmphasisMultipliers ==
    [][LoopTurn =>
          LET token == e_in.tokens[e_i + 1]
          IN  IF e_in.enable_emphasis
              THEN IF IsMarker(token)
                   THEN remade_tokens' = remade_tokens /\ multipliers' = multipliers
                   ELSE EmitsWith(WeightBefore(e_in.tokens, e_i))
              ELSE EmitsWith(0)]_vars

\* C17 with the markers being the tokens whose parens and brackets do not cancel: a
\* token such as "()" is emitted like any other token
C17_EmphasisOfUnbalancedMarkers ==
    [][LoopTurn =>
          LET token == e_in.tokens[e_i + 1]
          IN  IF e_in.enable_emphasis
              THEN IF IsMarker(token) /\ ParenWeight(get_vocab[token]) # 0
                   THEN remade_tokens' = remade_tokens /\ multipliers' = multipliers
                   ELSE EmitsWith(WeightBefore(e_in.tokens, e_i))
              ELSE EmitsWith(0)]_vars

\* "((", "a", "]", "a" with emphasis: the two words are emitted with 1.1^2 and 1.1^3
C17_Witness ==
    /\ e_pc = "scan" /\ e_in.enable_emphasis /\ e_in.dir = <<>>
    /\ e_in.tokens = <<7, 1, 5, 1>> /\ e_i = 4
    /\ remade_tokens = <<1, 1>> /\ multipliers = <<2, 3>>

\* the registered embeddings whose ids are a prefix of the tokens left at position at
PrefixMatches(at) ==
    {k \in DOMAIN e_in.dir :
        Slice(e_in.tokens, at, at + Len(e_in.dir[k].ids)) = e_in.dir[k].ids}

\* C18: at every position where registered embeddings have ids that are prefixes of
\* the remaining tokens, the one with the longest ids is substituted, one placeholder
\* for the whole matched sequence, whatever the order of registration.
C18_LongestPrefixMatch ==
    [][LoopTurn /\ PrefixMatches(e_i) # {}
          /\ ~(e_in.enable_emphasis /\ IsMarker(e_in.tokens[e_i + 1]))
       => LET best == CHOOSE k \in PrefixMatches(e_i) :
                         \A other \in PrefixMatches(e_i) :
                             Len(e_in.dir[k].ids) >= Len(e_in.dir[other].ids)
          IN  /\ remade_tokens' = Append(remade_tokens, Placeholder)
              /\ fixes' = Append(fixes, [offset |-> Len(remade_tokens),
                                         word |-> e_in.dir[best].name])
              /\ e_i' = e_i + Len(e_in.dir[best].ids)]_vars

\* the 0-based position of the k-th placeholder of the final token sequence, -1 if it
\* has fewer than k
PlaceholderPosition(k) ==
    LET at == {pos \in DOMAIN remade_tokens :
                  /\ remade_tokens[pos] = Placeholder
                  /\ Cardinality({before \in 1..pos : remade_tokens[before] = Placeholder}) = k}
    IN  IF at = {} THEN -1 ELSE (CHOOSE pos \in at : TRUE) - 1

\* C20: for every fix (offset, name) recorded while encoding a prompt, the position at
\* which EmbeddingsWithFixes writes the vector is the position of that match's
\* placeholder in the final token sequence (begin marker prepended, truncated or
\* padded), and that position is within the sequence.
C20_FixWrittenAtPlaceholder ==
    e_pc \in {"built", "embedded"} =>
        \A k \in DOMAIN fixes :
            /\ fixes[k].offset < Len(remade_tokens)
            /\ fixes[k].offset = PlaceholderPosition(k)
            /\ e_pc = "embedded" =>
                  /\ e_exc = "none"
                  /\ inputs_embeds[PlaceholderPosition(k) + 1] = <<"word", fixes[k].word>>

\* C21: for every prompt, the token sequence passed to the transformer has exactly the
\* length max_length, begins with the begin marker and ends with the end marker, and
\* the multiplier list has the same length, with 1.0 on the markers and the padding.
C21_FixedLengthSequence ==
    e_pc \in {"built", "embedded"} =>
        /\ Len(remade_tokens) = MaxLength
        /\ remade_tokens[1] = id_start
        /\ remade_tokens[Len(remade_tokens)] = id_end
        /\ Len(multipliers) = Len(remade_tokens)
        /\ \A k \in DOMAIN remade_tokens :
              remade_tokens[k] \in {id_start, id_end} => multipliers[k] = 0

(***************************************************************************)
(* Claims about latent inpainting, checked under SpecInpaint.              *)
(***************************************************************************)
\* C22: with a binary latent mask, at every position outside the inpainted region
\* (mask = 1, nmask = 0) the latent sample() returns equals init_latent, for both
\* sampler families, and for every inpainting_fill policy init_latent equals there the
\* encoded source latent.
C22_UnmaskedLatentKept ==
    \A k \in 1..MaxLatent :
        l_mask[k] = 1 /\ l_nmask[k] = 0 =>
            /\ l_pc = "returned" => samples[k] = init_latent[k]
            /\ l_pc \in {"ready", "sampling", "sampled", "returned"}
                  => init_latent[k] = l_p.encoded[k]

\* DDIM with noise fill has returned: position 1 is outside the region and kept,
\* position 2 inside it and regenerated
C22_Witness ==
    /\ l_pc = "returned"
    /\ l_p = [inpainting_fill |-> 2, sampler |-> "DDIM", encoded |-> <<1, 1>>,
              latmask |-> <<0, 1>>]
    /\ init_latent = <<1, 0>>
    /\ samples = <<1, 1>>

(***************************************************************************)
(* Claims about the low-memory mode, checked under SpecLowVram.            *)
(***************************************************************************)
\* C24: between and during the computations of the hooked submodules at most one
\* tracked module is on the accelerator, the one module_in_gpu records; and when a
\* hooked submodule's computation starts, that submodule or its registered parent is the
\* resident one, the module resident before having been moved to the CPU.
C24_OneResidentModule ==
    /\ v_pc \in {"idle", "compute"} =>
          /\ on_gpu = IF module_in_gpu = NoModule THEN {} ELSE {module_in_gpu}
          /\ on_gpu \subseteq Tracked(medvram)
    /\ v_pc = "compute" => module_in_gpu = v_module /\ on_gpu = {v_module}

\* an output block's computation starts (after another module was resident)
C24_Witness ==
    /\ v_pc = "compute" /\ ~medvram
    /\ v_module = <<"output_blocks", 2>>
    /\ on_gpu = {<<"output_blocks", 2>>}

(***************************************************************************)
(* Claims about the embeddings loader, checked under SpecLoader.           *)
(***************************************************************************)
\* process_file returns for the file without an exception
LoadsSuccessfully(file) == file.loads /\ file.ids # <<>>

\* the names of the files of the directory that load
LoadedNames(files) ==
    {files[k].name : k \in {j \in DOMAIN files : LoadsSuccessfully(files[j])}}

\* C25: a call of load_textual_inversion_embeddings with the directory's modification
\* time not greater than the recorded one leaves ids_lookup, word_embeddings and
\* dir_mtime unchanged; a first call or one with a greater time rebuilds the tables so
\* that after it they hold exactly the files of the directory that load: a file that
\* fails contributes no entry and the other files are registered.
C25_ReloadOnlyWhenNewer ==
    [][/\ d_pc = "idle" /\ d_pc' = "idle" /\ d_mt' = d_mt
           => UNCHANGED <<d_ids_lookup, word_embeddings, dir_mtime>>
       /\ d_pc = "listing" /\ d_pc' = "idle"
           => /\ {e.name : e \in word_embeddings'} = LoadedNames(listdir)
              /\ \A ident \in TokenIds :
                    {d_ids_lookup'[ident][k].name : k \in DOMAIN d_ids_lookup'[ident]}
                        = {nm \in LoadedNames(listdir) :
                              \E k \in DOMAIN listdir :
                                  listdir[k].name = nm /\ listdir[k].ids[1] = ident}
      ]_vars
=============================================================================
